---- MODULE Spec2Model ----
(***************************************************************************)
(* eagle-cooltils: the SubscriptionManager of src/universal/subscribe.ts.  *)
(*                                                                         *)
(* The manager is a singleton that owns the library-identity poller (the   *)
(* parent watcher, fixed 1000 ms) and four child pollers (item selection,  *)
(* folder selection, library config mtime, library folder mtime).  The     *)
(* JavaScript run-to-completion rule is modelled by the pair (iter, inCb): *)
(* while a tick's forEach over the subscribers is running (iter # None)    *)
(* no timer and no promise continuation can run; the only things that      *)
(* happen are the callbacks themselves, and the API calls a callback makes *)
(* while it executes (inCb = TRUE).                                        *)
(***************************************************************************)
EXTENDS Integers, Sequences, FiniteSets, TLC

\* ------------------------------------------------------------------ bounds
MaxSubs        == 2   \* subscribe calls made over a run of the whole manager
MaxLibrarySubs == 3   \* onLibraryChange calls over a run of the library watcher alone
MaxInflight    == 2   \* host queries awaiting their answer, all pollers together
MaxPollers     == 1   \* child pollers that get subscribers over a run
NumPaths       == 2   \* libraries the host opens over a run, one after the other
NumNames       == 2   \* library names the host can report
NumMtimes      == 2   \* mtime values stat can report
MaxIdx         == 2   \* length of the id sequences given to hasSelectionChanged
NumIds         == 2   \* ids the sequences given to hasSelectionChanged are made of
MaxLookupsArg  == 3   \* largest maxLookups given to hasSelectionChanged
MaxConcurrent  == 2   \* config operations in progress at the same time
MaxConfigOps   == 2   \* config operations called over a run, one after the other
MaxRaceOps     == 2   \* config operations called over a run that overlaps them
MaxSiblingOps  == 3   \* config operations called over a run on two sibling sections
MaxUuids       == 3   \* values randomUUID() returns over a run
MaxForestOps   == 3   \* forest methods called over a run, one after the other
MaxItems       == 2   \* items given to filterItems
MaxConditions  == 2   \* conditions of a filter
MaxRules       == 2   \* rules of a condition
MaxCombined    == 2   \* filters given to combineFilters and anyOfFilters
MaxRequests    == 2   \* request() calls made on one EagleWebApi client
MaxBuilderCalls == 4  \* calls made on one ItemFilterBuilder and its RuleBuilders
MaxItemWrites  == 1   \* write calls made on one BareItem over a run

\* ------------------------------------------------------- program constants
DefaultInterval   == 500   \* options.interval ?? 500, and getMinInterval's start
DefaultMaxLookups == -1    \* options.maxEqualLookups ?? -1
EmptyPath         == 0     \* the '' of getLibraryState's catch branch

None == [none |-> TRUE]

Children == {"item", "folder", "config", "libraryFolder"}
SelectionPollers == {"item", "folder"}
Pollers == Children \cup {"library"}

Callbacks == {"f", "g"}                      \* callback functions (by identity)
Intervals == {200, DefaultInterval}          \* options.interval, where it varies
Lookups   == {DefaultMaxLookups, 1}          \* options.maxEqualLookups
Paths     == 1..NumPaths
Names     == 1..NumNames
\* id sequences a selection query can answer with
Selections == {<<"a">>, <<"a", "b">>, <<"a", "c">>}
Mtimes     == 1..NumMtimes

VARIABLES
  hostPath,          \* eagle.library.path of the host
  libraryState,      \* SubscriptionManager.libraryState (None = null)
  libraryTimerId,    \* SubscriptionManager.libraryTimerId # null
  libraryCallbacks,  \* SubscriptionManager.libraryCallbacks, in insertion order
  entries,           \* the entries Set of each child poller, in insertion order
  timerId,           \* the period of each child poller's setInterval, 0 = null
  previous,          \* the previous (baseline) of each child poller
  inflight,          \* per child poller, the ticks suspended at their await
  subs,              \* the subscriptions made so far; the index is the handle
  released,          \* the handles that have been invoked (history)
  iter,              \* the forEach of the tick that is executing, or None: its
                     \* event (previous, current), the elements visited, and as
                     \* history the calls made, whether it is an initial check,
                     \* whether its host query failed, whether a callback threw,
                     \* how many subscriptions existed when it began and whether
                     \* the tick was in flight when the baselines were cleared
  inCb,              \* TRUE while a subscriber callback of that forEach runs
  fired,             \* history: the callback invocation made by the last step
  cmpArgs,           \* the arguments of a call of hasSelectionChanged, or None
  cmpResult          \* what that call returned, or None

\* the variables of the subscription manager and of its host
mgrVars == <<hostPath, libraryState, libraryTimerId, libraryCallbacks, entries,
             timerId, previous, inflight, subs, released, iter, inCb, fired>>

\* the variables of the comparator's own specification
cmpVars == <<cmpArgs, cmpResult>>

\* the scoped config store (EagleUserConfig), its files and its host
VARIABLES
  cfgFiles,          \* the four files of ~/.eaglecooler/config
  uuidFiles,         \* per library folder, its cooler-uuid.json
  cfgHost,           \* eagle.library.path and eagle.library.name
  cfgOps,            \* the config operations in progress, at their awaits
  cfgDone,           \* history: the operation the last step completed
  uuidsMade,         \* how many times randomUUID() has been called
  cfgCalls           \* how many config operations have been called

cfgVars == <<cfgFiles, uuidFiles, cfgHost, cfgOps, cfgDone, uuidsMade, cfgCalls>>

\* the forest layers of the bare library I/O and metadata.json
VARIABLES
  metadata,          \* the folders, smartFolders and tagsGroups of metadata.json
  frOp,              \* the updateLibraryMetadata in progress, or NoOp
  frDone,            \* history: the method the last step settled
  frCalls            \* how many methods have been called

forestVars == <<metadata, frOp, frDone, frCalls>>

\* the filter engine: the arguments and the result of a call of filterItems
VARIABLES
  fltItems,          \* the items given to filterItems
  fltFilter,         \* the filter given to filterItems
  fltResult          \* what the call returned or that it threw, or NoOp

filterVars == <<fltItems, fltFilter, fltResult>>

\* an ItemFilterBuilder: condition objects live in a heap, the builder holds
\* references to them
VARIABLES
  bldHeap,           \* the condition objects created so far
  bldConditions,     \* this.conditions: references into the heap
  bldCurrent,        \* this.currentCondition: a reference, or 0 for null
  bldMatch,          \* this.conditionMatch
  bldPending,        \* the RuleBuilder awaiting its terminator (and the call that
                     \* returned it), or None
  bldBuilt,          \* build() has returned the filter held in fltFilter
  bldCalls           \* builder and terminator calls made so far

builderVars == <<bldHeap, bldConditions, bldCurrent, bldMatch, bldPending, bldBuilt, bldCalls>>

\* an EagleWebApi client and the host's HTTP endpoint
VARIABLES
  apiToken,          \* options.token: a string, or Absent
  apiGetToken,       \* what options.getToken returns now, or NoProvider
  apiRequests,       \* each request() call: NoOp, awaiting its response, or settled
  apiFetches         \* the fetches made so far: path and token parameter

apiVars == <<apiToken, apiGetToken, apiRequests, apiFetches>>

\* one BareItem, the files of its .info directory and the two indexes
VARIABLES
  itemFile,          \* images/<id>.info/metadata.json
  urlFile,           \* the .url companion in the .info directory
  mtimeFile,         \* mtime.json
  tagsFile,          \* tags.json
  itOp,              \* the write in progress, at its await, or NoOp
  itDone,            \* history: the write the last step settled
  itCalls            \* how many writes have been called

itemVars == <<itemFile, urlFile, mtimeFile, tagsFile, itOp, itDone, itCalls>>

\* two library-scoped EagleUserConfig instances whose section keys are resolved
VARIABLES
  keyArgs,           \* the two instances: scope, library and plugin of each
  keyResult          \* the key getConfigKey gave each of them, or None

keyVars == <<keyArgs, keyResult>>

\* what no step of the subscription manager touches
outsideMgr == <<cmpVars, cfgVars, forestVars, filterVars, builderVars, apiVars, itemVars, keyVars>>

\* what no step of the config store touches
outsideCfg == <<mgrVars, cmpVars, forestVars, filterVars, builderVars, apiVars, itemVars, keyVars>>

\* what the comparator's step does not touch
outsideCmp == <<mgrVars, cfgVars, forestVars, filterVars, builderVars, apiVars, itemVars, keyVars>>

\* what no step of the forest layers touches
outsideForest == <<mgrVars, cmpVars, cfgVars, filterVars, builderVars, apiVars, itemVars, keyVars>>

\* what the filter engine does not touch
outsideFilter == <<mgrVars, cmpVars, cfgVars, forestVars, builderVars, apiVars, itemVars, keyVars>>

\* what the filter builder does not touch, the filter it built apart
outsideBuilder == <<mgrVars, cmpVars, cfgVars, forestVars, apiVars, itemVars, keyVars>>

\* what a BareItem does not touch
outsideItem == <<mgrVars, cmpVars, cfgVars, forestVars, filterVars, builderVars, apiVars, keyVars>>

\* what resolving two section keys does not touch
outsideKey == <<mgrVars, cmpVars, cfgVars, forestVars, filterVars, builderVars, apiVars,
                itemVars>>

\* what the web API client does not touch
outsideApi == <<mgrVars, cmpVars, cfgVars, forestVars, filterVars, builderVars, itemVars, keyVars>>

vars == <<mgrVars, cmpVars, cfgVars, forestVars, filterVars, builderVars, apiVars, itemVars, keyVars>>

\* ----------------------------------------------------------------- helpers
Range(s) == {s[i] : i \in 1..Len(s)}

\* Set.prototype.add on a Set kept in insertion order
SetAdd(s, x) == IF x \in Range(s) THEN s ELSE Append(s, x)

\* Set.prototype.delete
SetDelete(s, x) == SelectSeq(s, LAMBDA y : y # x)

RemoveAt(s, i) == SubSeq(s, 1, i - 1) \o SubSeq(s, i + 1, Len(s))

Min(a, b) == IF a < b THEN a ELSE b

InflightCount ==
  Len(inflight["item"]) + Len(inflight["folder"])
    + Len(inflight["config"]) + Len(inflight["libraryFolder"])

\* the child pollers subscribed to so far
UsedPollers == {subs[i].kind : i \in 1..Len(subs)} \cap Children

\* what one host query of child poller p can answer
Values(p) == IF p \in SelectionPollers THEN Selections ELSE Mtimes

\* ----------------------------------------------------------- pure functions
\* the for loop of hasSelectionChanged, from index i (0-based) up to limit
RECURSIVE ScanIds(_, _, _, _)
ScanIds(prev, curr, i, limit) ==
  IF i >= limit THEN FALSE
  ELSE IF prev[i + 1] # curr[i + 1] THEN TRUE
  ELSE ScanIds(prev, curr, i + 1, limit)

\* mutant of hasSelectionChanged: -1 is not taken as "all"
hasSelectionChanged_NoSentinel(prev, curr, maxLookups) ==
  IF Len(prev) # Len(curr) THEN TRUE
  ELSE ScanIds(prev, curr, 0, Min(maxLookups, Len(prev)))

hasSelectionChanged(prev, curr, maxLookups) ==
  IF Len(prev) # Len(curr) THEN TRUE
  ELSE LET limit == IF maxLookups = -1 THEN Len(prev)
                    ELSE Min(maxLookups, Len(prev))
       IN  ScanIds(prev, curr, 0, limit)

\* getMinInterval over the entries es (handles into the table tbl of
\* subscriptions), min being the running minimum of the forEach
RECURSIVE MinIntervalFrom(_, _, _)
MinIntervalFrom(es, tbl, min) ==
  IF es = <<>> THEN min
  ELSE MinIntervalFrom(Tail(es), tbl,
         IF tbl[Head(es)].interval < min THEN tbl[Head(es)].interval ELSE min)

getMinInterval(es, tbl) == MinIntervalFrom(es, tbl, DefaultInterval)

\* what getLibraryState() can return in the current host state: the host's
\* path with the name it reports, or the catch branch's empty state
HostLibraryState == {[path |-> hostPath, name |-> n] : n \in Names}
FailedLibraryState == [path |-> EmptyPath, name |-> EmptyPath]
getLibraryState == HostLibraryState \cup {FailedLibraryState}

\* ------------------------------------------------------------------- state
MgrInit ==
  /\ hostPath = 1
  /\ libraryState = None
  /\ libraryTimerId = FALSE
  /\ libraryCallbacks = <<>>
  /\ entries = [p \in Children |-> <<>>]
  /\ timerId = [p \in Children |-> 0]
  /\ previous = [p \in Children |-> None]
  /\ inflight = [p \in Children |-> <<>>]
  /\ subs = <<>>
  /\ released = {}
  /\ iter = None
  /\ inCb = FALSE
  /\ fired = None

\* API calls run from the event loop or from inside a subscriber callback;
\* timers and promise continuations run only from the event loop.
Idle == iter = None
CanCall == iter = None \/ inCb

\* ------------------------------------------------- library-identity poller
\* ensureLibraryWatcher: on the primed timer and state
ensureLibraryWatcher ==
  IF libraryTimerId
  THEN UNCHANGED <<libraryState, libraryTimerId>>
  ELSE /\ libraryState' \in getLibraryState
       /\ libraryTimerId' = TRUE

\* maybeStopLibraryWatcher, given the callbacks and entries the caller leaves
maybeStopLibraryWatcher(cbs, ents) ==
  IF cbs = <<>> /\ \A p \in Children : ents[p] = <<>>
  THEN /\ libraryTimerId' = FALSE
       /\ libraryState' = None
  ELSE UNCHANGED <<libraryState, libraryTimerId>>

\* subscribeLibrary(callback): onLibraryChange
subscribeLibrary(cb) ==
  /\ CanCall
  /\ subs' = Append(subs, [kind |-> "library", callback |-> cb,
                           interval |-> 0, maxEqualLookups |-> DefaultMaxLookups])
  /\ libraryCallbacks' = SetAdd(libraryCallbacks, cb)
  /\ ensureLibraryWatcher
  /\ fired' = None
  /\ UNCHANGED outsideMgr
  /\ UNCHANGED <<hostPath, entries, timerId, previous, inflight, released, iter, inCb>>

\* the release handle returned by subscribeLibrary
unsubscribeLibrary(s) ==
  /\ CanCall
  /\ s \in 1..Len(subs) /\ subs[s].kind = "library"
  /\ libraryCallbacks' = SetDelete(libraryCallbacks, subs[s].callback)
  /\ maybeStopLibraryWatcher(libraryCallbacks', entries)
  /\ released' = released \cup {s}
  \* a deleted element is no longer among the visited ones of a running forEach
  /\ iter' = IF iter # None /\ iter.poller = "library"
             THEN [iter EXCEPT !.visited = @ \ {subs[s].callback}]
             ELSE iter
  /\ fired' = None
  /\ UNCHANGED outsideMgr
  /\ UNCHANGED <<hostPath, entries, timerId, previous, inflight, subs, inCb>>

\* ------------------------------------------------------------ child pollers
\* A check suspended at its await: the library path the host had when the
\* query was issued (history) and whether it is a watcher's initial check.
\* The value the host answers with is drawn when the query resolves.  As
\* history, whether resetChildWatchers has run since the query was issued,
\* and whether a query issued later has resolved before this one.
Issued(isInitial) ==
  [path |-> hostPath, initial |-> isInitial, reset |-> FALSE, overtaken |-> FALSE]

\* ensureItemWatcher / ensureFolderWatcher / ensureConfigWatcher /
\* ensureLibraryFolderWatcher, given the entries the caller leaves: start the
\* timer at the minimum interval and issue the initial check
ensureWatcher(p, ents, tbl) ==
  IF timerId[p] # 0
  THEN UNCHANGED <<timerId, inflight>>
  ELSE /\ timerId' = [timerId EXCEPT ![p] = getMinInterval(ents, tbl)]
       /\ inflight' = [inflight EXCEPT ![p] = Append(@, Issued(TRUE))]

\* mutant of maybeStopWatcher: the timer is left running
maybeStopWatcher_LeavesTimer(p, ents) == UNCHANGED <<timerId, previous>>

\* maybeStopItemWatcher and its three siblings, given the entries left
maybeStopWatcher(p, ents) ==
  IF ents = <<>> /\ timerId[p] # 0
  THEN /\ timerId' = [timerId EXCEPT ![p] = 0]
       /\ previous' = [previous EXCEPT ![p] = None]
  ELSE UNCHANGED <<timerId, previous>>

\* subscribeItems / subscribeFolders / subscribeConfig / subscribeLibraryFolders
subscribeChild(p, interval, maxEqualLookups) ==
  /\ CanCall
  /\ timerId[p] = 0 => InflightCount < MaxInflight
  /\ Cardinality(UsedPollers \cup {p}) <= MaxPollers
  /\ p \notin SelectionPollers => maxEqualLookups = DefaultMaxLookups
  /\ subs' = Append(subs, [kind |-> p, callback |-> "f", interval |-> interval,
                           maxEqualLookups |-> maxEqualLookups])
  /\ entries' = [entries EXCEPT ![p] = Append(@, Len(subs'))]
  /\ ensureLibraryWatcher
  /\ ensureWatcher(p, entries'[p], subs')
  /\ fired' = None
  /\ UNCHANGED outsideMgr
  /\ UNCHANGED <<hostPath, libraryCallbacks, previous, released, iter, inCb>>

\* mutant of unsubscribeChild: the handle leaves the entry in the Set
unsubscribeChild_KeepsEntry(s) ==
  /\ CanCall
  /\ s \in 1..Len(subs) /\ subs[s].kind \in Children
  /\ released' = released \cup {s}
  /\ fired' = None
  /\ UNCHANGED outsideMgr
  /\ UNCHANGED <<hostPath, libraryState, libraryTimerId, libraryCallbacks, entries,
                 timerId, previous, inflight, subs, iter, inCb>>

\* the release handle returned by the four child subscribe methods
unsubscribeChild(s) ==
  /\ CanCall
  /\ s \in 1..Len(subs) /\ subs[s].kind \in Children
  /\ LET p == subs[s].kind IN
       /\ entries' = [entries EXCEPT ![p] = SetDelete(@, s)]
       /\ maybeStopWatcher(p, entries'[p])
  /\ maybeStopLibraryWatcher(libraryCallbacks, entries')
  /\ released' = released \cup {s}
  /\ iter' = IF iter # None /\ iter.poller = subs[s].kind
             THEN [iter EXCEPT !.visited = @ \ {s}]
             ELSE iter
  /\ fired' = None
  /\ UNCHANGED outsideMgr
  /\ UNCHANGED <<hostPath, libraryCallbacks, inflight, subs, inCb>>

\* the setInterval callback of a child poller: the check runs up to its await
\* (eagle.item.getSelected(), eagle.folder.getSelected(), fs.stat)
timerTick(p) ==
  /\ Idle
  /\ timerId[p] # 0
  /\ InflightCount < MaxInflight
  /\ inflight' = [inflight EXCEPT ![p] = Append(@, Issued(FALSE))]
  /\ fired' = None
  /\ UNCHANGED outsideMgr
  /\ UNCHANGED <<hostPath, libraryState, libraryTimerId, libraryCallbacks, entries,
                 timerId, previous, subs, released, iter, inCb>>

\* the awaited host query of the i-th suspended check rejects: the catch logs
checkRejected(p, i) ==
  /\ Idle
  /\ i \in 1..Len(inflight[p])
  /\ inflight' = [inflight EXCEPT ![p] = RemoveAt(@, i)]
  /\ fired' = None
  /\ UNCHANGED outsideMgr
  /\ UNCHANGED <<hostPath, libraryState, libraryTimerId, libraryCallbacks, entries,
                 timerId, previous, subs, released, iter, inCb>>

\* the awaited host query of the i-th suspended check resolves:
\* checkItemChange / checkFolderChange / checkConfigChange /
\* checkLibraryFolderChange from their await to the forEach (or, with no
\* baseline or an unchanged mtime, to the assignment of previous)
checkResolved(p, i) ==
  /\ Idle
  /\ i \in 1..Len(inflight[p])
  /\ inflight' = [inflight EXCEPT ![p] =
                    RemoveAt([j \in 1..Len(@) |->
                                IF j < i THEN [@[j] EXCEPT !.overtaken = TRUE] ELSE @[j]], i)]
  /\ \E val \in Values(p) :
       LET t == inflight[p][i]
           current == [val |-> val, path |-> t.path]
           enter == /\ previous[p] # None
                    /\ p \notin SelectionPollers => current.val # previous[p].val
       IN  IF enter
           THEN /\ iter' = [poller |-> p, previous |-> previous[p], current |-> current,
                            visited |-> {}, called |-> <<>>, initial |-> t.initial,
                            failed |-> FALSE, threw |-> FALSE, first |-> Len(subs),
                            reset |-> t.reset]
                /\ UNCHANGED previous
           ELSE /\ previous' = [previous EXCEPT ![p] = current]
                /\ UNCHANGED iter
  /\ fired' = None
  /\ UNCHANGED outsideMgr
  /\ UNCHANGED <<hostPath, libraryState, libraryTimerId, libraryCallbacks, entries,
                 timerId, subs, released, inCb>>

\* the setInterval callback of the library watcher: checkLibraryChange up to
\* its forEach (or, when the path is the stored one, to its end)
libraryTick ==
  /\ Idle
  /\ libraryTimerId
  /\ \E current \in getLibraryState :
       IF libraryState # None /\ current.path # libraryState.path
       THEN /\ iter' = [poller |-> "library", previous |-> libraryState,
                        current |-> current, visited |-> {}, called |-> <<>>,
                        initial |-> FALSE, failed |-> current = FailedLibraryState,
                        threw |-> FALSE, first |-> Len(subs), reset |-> FALSE]
            /\ UNCHANGED libraryState
       ELSE /\ libraryState' = current
            /\ UNCHANGED iter
  /\ fired' = None
  /\ UNCHANGED outsideMgr
  /\ UNCHANGED <<hostPath, libraryTimerId, libraryCallbacks, entries, timerId,
                 previous, inflight, subs, released, inCb>>

\* resetChildWatchers
resetChildWatchers == previous' = [p \in Children |-> None]

\* ------------------------------------------- the forEach of a running tick
\* the Set the running tick iterates
Iterated == IF iter.poller = "library" THEN libraryCallbacks ELSE entries[iter.poller]

\* whether the forEach body invokes element x: the selection pollers compare
\* per entry, with the entry's maxEqualLookups
Due(x) ==
  iter.poller \in SelectionPollers =>
    hasSelectionChanged(iter.previous.val, iter.current.val, subs[x].maxEqualLookups)

\* the elements forEach still has to invoke, in insertion order
Pending == SelectSeq(Iterated, LAMBDA x : x \notin iter.visited /\ Due(x))

\* history: the subscriptions, not yet released, that element x stands for
Holders(x) ==
  IF iter.poller = "library"
  THEN {s \in 1..Len(subs) : /\ subs[s].kind = "library"
                              /\ subs[s].callback = x
                              /\ s \notin released}
  ELSE {x}

\* forEach reaches the next subscriber that is due and calls its callback
invokeCallback ==
  /\ iter # None /\ ~inCb
  /\ Pending # <<>>
  /\ LET x == Head(Pending) IN
       /\ iter' = [iter EXCEPT !.visited = @ \cup {x},
                                !.called = Append(@, [callee |-> x, subs |-> Holders(x)])]
       /\ fired' = [poller |-> iter.poller,
                    entry |-> IF iter.poller = "library" THEN 0 ELSE x,
                    callback |-> IF iter.poller = "library" THEN x ELSE subs[x].callback,
                    previous |-> iter.previous, current |-> iter.current,
                    initial |-> iter.initial, failed |-> iter.failed]
  /\ inCb' = TRUE
  /\ UNCHANGED outsideMgr
  /\ UNCHANGED <<hostPath, libraryState, libraryTimerId, libraryCallbacks, entries,
                 timerId, previous, inflight, subs, released>>

\* the callback returns
callbackReturns ==
  /\ iter # None /\ inCb
  /\ inCb' = FALSE
  /\ fired' = None
  /\ UNCHANGED outsideMgr
  /\ UNCHANGED <<hostPath, libraryState, libraryTimerId, libraryCallbacks, entries,
                 timerId, previous, inflight, subs, released, iter>>

\* mutant of callbackThrows: no try/catch, the exception ends the check
callbackThrows_Escapes ==
  /\ iter # None /\ inCb
  /\ inCb' = FALSE
  /\ iter' = None
  /\ fired' = None
  /\ UNCHANGED outsideMgr
  /\ UNCHANGED <<hostPath, libraryState, libraryTimerId, libraryCallbacks, entries,
                 timerId, previous, inflight, subs, released>>

\* the callback throws: the try/catch around it logs
callbackThrows ==
  /\ iter # None /\ inCb
  /\ inCb' = FALSE
  /\ iter' = [iter EXCEPT !.threw = TRUE]
  /\ fired' = None
  /\ UNCHANGED outsideMgr
  /\ UNCHANGED <<hostPath, libraryState, libraryTimerId, libraryCallbacks, entries,
                 timerId, previous, inflight, subs, released>>

\* after the forEach: a child check stores its observation as previous;
\* checkLibraryChange resets the child watchers and stores the library state
tickCompletes ==
  /\ iter # None /\ ~inCb
  /\ Pending = <<>>
  /\ IF iter.poller = "library"
     THEN /\ resetChildWatchers
          /\ libraryState' = iter.current
          /\ inflight' = [p \in Children |->
                            [i \in 1..Len(inflight[p]) |->
                               [inflight[p][i] EXCEPT !.reset = TRUE]]]
     ELSE /\ previous' = [previous EXCEPT ![iter.poller] = iter.current]
          /\ UNCHANGED <<libraryState, inflight>>
  /\ iter' = None
  /\ fired' = None
  /\ UNCHANGED outsideMgr
  /\ UNCHANGED <<hostPath, libraryTimerId, libraryCallbacks, entries, timerId,
                 subs, released, inCb>>

\* --------------------------------------------------------------------- host
\* the user switches the host to another library, one not opened before
hostSwitchesLibrary(path) ==
  /\ path = hostPath + 1
  /\ hostPath' = path
  /\ fired' = None
  /\ UNCHANGED outsideMgr
  /\ UNCHANGED <<libraryState, libraryTimerId, libraryCallbacks, entries, timerId,
                 previous, inflight, subs, released, iter, inCb>>

\* ======================================================= scoped config store
\* EagleUserConfig.  Strings are sequences of characters, so that string
\* concatenation is \o.  JavaScript values are named by strings.
PluginId == <<"P">>                          \* getPluginId()
ConfigFiles == {"global.json", "globalPerPlugin.json", "library.json", "plugin.json"}

\* an EagleUserConfig instance: its four readonly fields
Scope(t, p, n, u) ==
  [type |-> t, thisPluginOnly |-> p,
   useLibraryNameAsLibIdentifier |-> n, useLibraryUuid |-> u]

\* the nine scoping regimes the options give
Scopes ==
  {Scope("global", p, FALSE, FALSE) : p \in BOOLEAN}
    \cup {Scope("pluginbased", FALSE, FALSE, FALSE)}
    \cup {Scope("librarybased", p, m[1], m[2]) :
            p \in BOOLEAN, m \in {<<FALSE, FALSE>>, <<TRUE, FALSE>>, <<FALSE, TRUE>>}}

\* the library folders of the host: the path of each and its name
LibraryPaths == {<<"L">>, <<"L", "P">>, <<"R">>}
LibraryName(path) ==
  IF path = <<"L">> THEN <<"N">> ELSE IF path = <<"L", "P">> THEN <<"L">> ELSE <<"R">>
Library(path) == [path |-> path, name |-> LibraryName(path)]

\* keys and values of config data
ConfigKeys == {"k", "j"}
Undefined == "undefined"
NaNValue == "NaN"
Null == "null"
ConfigValues == {"1", Undefined, NaNValue}
EmptyData == <<>>                            \* {}
ConfigPatches == {("k" :> "1") @@ ("j" :> "2"), ("k" :> NaNValue)}

\* a file of the config directory or a cooler-uuid.json
AbsentFile == [state |-> "absent", root |-> EmptyData]
MalformedFile == [state |-> "malformed", root |-> EmptyData]
JsonFile(root) == [state |-> "json", root |-> root]
NoFolder == [state |-> "nofolder", root |-> EmptyData]

\* sha256(input): the 16 hex characters, taken as an injective function
sha256(input) == <<"#">> \o input
NoKey == <<>>                                \* getConfigKey() returning null

\* the n-th value randomUUID() returns
UuidNames == <<"u1", "u2", "u3", "u4", "u5">>
Uuid(n) == <<UuidNames[n]>>

\* JSON.parse(JSON.stringify(data)) of one section: a property whose value is
\* undefined is left out, NaN is written as null
JsonSection(data) ==
  [k \in {x \in DOMAIN data : data[x] # Undefined} |->
     IF data[k] = NaNValue THEN Null ELSE data[k]]

\* JSON.parse(JSON.stringify(data)) of a whole document
JsonDocument(file, data) ==
  IF file = "global.json" THEN JsonSection(data)
  ELSE [key \in DOMAIN data |-> JsonSection(data[key])]

readJsonFile(content) == IF content.state = "json" THEN content.root ELSE EmptyData

getConfigFilePath(scope) ==
  CASE scope.type = "global" ->
         IF scope.thisPluginOnly THEN "globalPerPlugin.json" ELSE "global.json"
    [] scope.type = "pluginbased" -> "plugin.json"
    [] scope.type = "librarybased" -> "library.json"

getLibraryIdentifier(useNameAsIdentifier, host) ==
  IF useNameAsIdentifier THEN host.name ELSE host.path

\* getConfigKey once the library identifier is known, in a plugin whose id
\* getPluginId() returns
ConfigKeyFor(scope, libId, pluginId) ==
  CASE scope.type = "global" ->
         IF scope.thisPluginOnly THEN sha256(pluginId) ELSE NoKey
    [] scope.type = "pluginbased" -> sha256(pluginId)
    [] scope.type = "librarybased" ->
         IF scope.thisPluginOnly THEN sha256(libId \o pluginId) ELSE sha256(libId)

\* getConfigKey in the plugin the config store runs in
ConfigKeyOf(scope, libId) == ConfigKeyFor(scope, libId, PluginId)

\* getConfigKey of an instance bound to a library and a plugin
getConfigKey(instance) ==
  ConfigKeyFor(instance.scope,
               IF instance.scope.useLibraryUuid THEN instance.library.uuid
               ELSE getLibraryIdentifier(instance.scope.useLibraryNameAsLibIdentifier,
                                         instance.library),
               instance.plugin)

KeyRest ==
  /\ keyArgs = None
  /\ keyResult = None

\* getConfigKey of the two instances
callGetConfigKey ==
  /\ keyResult = None
  /\ keyResult' = <<getConfigKey(keyArgs[1]), getConfigKey(keyArgs[2])>>
  /\ UNCHANGED keyArgs
  /\ UNCHANGED outsideKey

\* the `fileData[key] ?? {}` of getSection
SectionOf(fileData, key) ==
  IF key = NoKey THEN fileData
  ELSE IF key \in DOMAIN fileData THEN fileData[key] ELSE EmptyData

\* data[key] of a section
ValueOf(data, k) == IF k \in DOMAIN data THEN data[k] ELSE Undefined

\* delete data[key]
Without(data, k) == [x \in DOMAIN data \ {k} |-> data[x]]

\* no operation in progress in a slot, nothing completed by the last step
NoOp == [pc |-> "none"]
OpIds == 1..MaxConcurrent

\* the config store before any operation: no file exists yet
CfgRest ==
  /\ cfgFiles = [f \in ConfigFiles |-> AbsentFile]
  /\ uuidFiles = [p \in LibraryPaths |-> IF p = <<"R">> THEN NoFolder ELSE AbsentFile]
  /\ cfgHost = Library(<<"L">>)
  /\ cfgOps = [i \in OpIds |-> NoOp]
  /\ cfgDone = NoOp
  /\ uuidsMade = 0
  /\ cfgCalls = 0

\* ---- one config operation, from await to await
UsesUuid(scope) == scope.type = "librarybased" /\ scope.useLibraryUuid

\* an async method returning (or, with error, rejecting)
Finished(op, result) == [op EXCEPT !.pc = "done", !.result = result]

\* mutant of saveSectionWith: the section data is saved as the whole file
saveSectionWith_AsWholeFile(op, key) ==
  [op EXCEPT !.pc = "write", !.key = key, !.out = op.data]

\* saveSection from the key getConfigKey resolved with: the root-level scope
\* goes on to write its data, a sectioned scope to re-read the file
saveSectionWith(op, key) ==
  IF key = NoKey
  THEN [op EXCEPT !.pc = "write", !.key = key, !.out = op.data]
  ELSE [op EXCEPT !.pc = "reload", !.key = key]

\* saveSection up to its first I/O: getConfigKey is synchronous unless the
\* scope is in UUID mode, where it starts reading cooler-uuid.json
saveSection(op, host) ==
  IF UsesUuid(op.scope)
  THEN [op EXCEPT !.pc = "uuidRead", !.phase = "save", !.upath = host.path]
  ELSE saveSectionWith(op, ConfigKeyOf(op.scope,
         getLibraryIdentifier(op.scope.useLibraryNameAsLibIdentifier, host)))

\* a public method from the section getSection returned to its next I/O
getSectionWith(op, key, host) ==
  LET data == SectionOf(op.fileData, key)
      o == [op EXCEPT !.key = key, !.readKey = key, !.data = data]
  IN  CASE op.kind = "get" -> Finished(o, ValueOf(data, op.k))
        [] op.kind = "getOrDefault" ->
             Finished(o, IF ValueOf(data, op.k) # Undefined
                         THEN ValueOf(data, op.k) ELSE op.arg)
        [] op.kind = "has" -> Finished(o, op.k \in DOMAIN data)
        [] op.kind = "keys" -> Finished(o, DOMAIN data)
        [] op.kind = "getAll" -> Finished(o, data)
        [] op.kind = "set" ->
             saveSection([o EXCEPT !.data = (op.k :> op.arg) @@ data], host)
        [] op.kind = "setMany" ->
             saveSection([o EXCEPT !.data = op.arg @@ data], host)
        [] op.kind = "remove" ->
             IF op.k \in DOMAIN data
             THEN saveSection([o EXCEPT !.data = Without(data, op.k)], host)
             ELSE Finished(o, FALSE)

\* getSection from the loaded file to its next I/O
getSection(op, host) ==
  IF UsesUuid(op.scope)
  THEN [op EXCEPT !.pc = "uuidRead", !.phase = "get", !.upath = host.path]
  ELSE getSectionWith(op, ConfigKeyOf(op.scope,
         getLibraryIdentifier(op.scope.useLibraryNameAsLibIdentifier, host)), host)

\* mutant of WithLibraryUuid: the key is derived from the library path
WithLibraryUuid_UsesPath(op, uuid, host) ==
  IF op.phase = "get"
  THEN getSectionWith(op, ConfigKeyOf(op.scope, host.path), host)
  ELSE saveSectionWith(op, ConfigKeyOf(op.scope, host.path))

\* getConfigKey of a UUID scope once getOrCreateLibraryUuid returned
WithLibraryUuid(op, uuid, host) ==
  IF op.phase = "get"
  THEN getSectionWith(op, ConfigKeyOf(op.scope, uuid), host)
  ELSE saveSectionWith(op, ConfigKeyOf(op.scope, uuid))

\* the operation goes on from its await, or has settled
Settle(i, op) ==
  /\ cfgOps' = [cfgOps EXCEPT ![i] = IF op.pc = "done" THEN NoOp ELSE op]
  /\ cfgDone' = IF op.pc = "done" THEN op ELSE NoOp

\* a public method of an EagleUserConfig is called: it runs up to its first
\* I/O, loadFile of getSection, or for clear() the saveSection({})
cfgCall(i, scope, kind, k, arg) ==
  /\ cfgOps[i].pc = "none"
  /\ cfgCalls' = cfgCalls + 1
  /\ LET op == [pc |-> "load", scope |-> scope, kind |-> kind, k |-> k, arg |-> arg,
                phase |-> "get", fileData |-> EmptyData, data |-> EmptyData,
                key |-> NoKey, readKey |-> NoKey, upath |-> cfgHost.path,
                newUuid |-> <<>>,
                out |-> EmptyData, result |-> Undefined, error |-> FALSE]
     IN  cfgOps' = [cfgOps EXCEPT ![i] =
                      IF kind = "clear" THEN saveSection(op, cfgHost) ELSE op]
  /\ cfgDone' = NoOp
  /\ UNCHANGED <<cfgFiles, uuidFiles, cfgHost, uuidsMade>>
  /\ UNCHANGED outsideCfg

\* every call the public API offers on one instance
configCall(i, scope) ==
  \/ \E k \in ConfigKeys, kind \in {"get", "has", "remove"} :
       cfgCall(i, scope, kind, k, Undefined)
  \/ \E k \in ConfigKeys : cfgCall(i, scope, "getOrDefault", k, "d")
  \/ \E kind \in {"keys", "getAll", "clear"} : cfgCall(i, scope, kind, "", Undefined)
  \/ \E k \in ConfigKeys, v \in ConfigValues : cfgCall(i, scope, "set", k, v)
  \/ \E patch \in ConfigPatches : cfgCall(i, scope, "setMany", "", patch)

\* mutant of loadFile: a file that cannot be read or parsed rejects
loadFile_Rejects(i) ==
  /\ cfgOps[i].pc = "load"
  /\ LET content == cfgFiles[getConfigFilePath(cfgOps[i].scope)]
         op == [cfgOps[i] EXCEPT !.fileData = readJsonFile(content)]
     IN  Settle(i, IF content.state = "json" THEN getSection(op, cfgHost)
                   ELSE [op EXCEPT !.pc = "done", !.error = TRUE])
  /\ UNCHANGED <<cfgFiles, uuidFiles, cfgHost, uuidsMade, cfgCalls>>
  /\ UNCHANGED outsideCfg

\* loadFile of getSection: fs.readFile and JSON.parse of the config file
loadFile(i) ==
  /\ cfgOps[i].pc = "load"
  /\ LET op == [cfgOps[i] EXCEPT !.fileData =
                  readJsonFile(cfgFiles[getConfigFilePath(cfgOps[i].scope)])]
     IN  Settle(i, getSection(op, cfgHost))
  /\ UNCHANGED <<cfgFiles, uuidFiles, cfgHost, uuidsMade, cfgCalls>>
  /\ UNCHANGED outsideCfg

\* readLibraryUuid inside getOrCreateLibraryUuid: with no UUID in the file a
\* new one is generated and writeLibraryUuid begins
readLibraryUuid(i) ==
  /\ cfgOps[i].pc = "uuidRead"
  /\ LET op == cfgOps[i]
         content == uuidFiles[op.upath]
     IN  IF content.state = "json"
         THEN /\ Settle(i, WithLibraryUuid(op, content.root, cfgHost))
              /\ UNCHANGED uuidsMade
         ELSE /\ uuidsMade < MaxUuids
              /\ uuidsMade' = uuidsMade + 1
              /\ Settle(i, [op EXCEPT !.pc = "uuidWrite",
                                      !.newUuid = Uuid(uuidsMade + 1),
                                      !.upath = cfgHost.path])
  /\ UNCHANGED <<cfgFiles, uuidFiles, cfgHost, cfgCalls>>
  /\ UNCHANGED outsideCfg

\* mutant of writeLibraryUuid: the UUID is used but never persisted
writeLibraryUuid_NotPersisted(i) ==
  /\ cfgOps[i].pc = "uuidWrite"
  /\ Settle(i, WithLibraryUuid(cfgOps[i], cfgOps[i].newUuid, cfgHost))
  /\ UNCHANGED <<cfgFiles, uuidFiles, cfgHost, uuidsMade, cfgCalls>>
  /\ UNCHANGED outsideCfg

\* writeLibraryUuid: fs.writeFile of cooler-uuid.json, which rejects when the
\* library folder is gone
writeLibraryUuid(i) ==
  /\ cfgOps[i].pc = "uuidWrite"
  /\ LET op == cfgOps[i]
     IN  IF uuidFiles[op.upath].state = "nofolder"
         THEN /\ Settle(i, [op EXCEPT !.pc = "done", !.error = TRUE])
              /\ UNCHANGED uuidFiles
         ELSE /\ uuidFiles' = [uuidFiles EXCEPT ![op.upath] = JsonFile(op.newUuid)]
              /\ Settle(i, WithLibraryUuid(op, op.newUuid, cfgHost))
  /\ UNCHANGED <<cfgFiles, cfgHost, uuidsMade, cfgCalls>>
  /\ UNCHANGED outsideCfg

\* mutant of reloadFile: the section is saved into the document getSection
\* loaded, without a second read
reloadFile_Stale(i) ==
  /\ cfgOps[i].pc = "reload"
  /\ Settle(i, [cfgOps[i] EXCEPT !.pc = "write",
                                 !.out = (cfgOps[i].key :> cfgOps[i].data) @@ cfgOps[i].fileData])
  /\ UNCHANGED <<cfgFiles, uuidFiles, cfgHost, uuidsMade, cfgCalls>>
  /\ UNCHANGED outsideCfg

\* mutant of reloadFile: the section is saved into an empty document
reloadFile_DropsSiblings(i) ==
  /\ cfgOps[i].pc = "reload"
  /\ Settle(i, [cfgOps[i] EXCEPT !.pc = "write",
                                 !.out = (cfgOps[i].key :> cfgOps[i].data)])
  /\ UNCHANGED <<cfgFiles, uuidFiles, cfgHost, uuidsMade, cfgCalls>>
  /\ UNCHANGED outsideCfg

\* loadFile of saveSection, and `fileData[key] = sectionData`
reloadFile(i) ==
  /\ cfgOps[i].pc = "reload"
  /\ LET op == cfgOps[i]
         fileData == readJsonFile(cfgFiles[getConfigFilePath(op.scope)])
     IN  Settle(i, [op EXCEPT !.pc = "write", !.fileData = fileData,
                              !.out = (op.key :> op.data) @@ fileData])
  /\ UNCHANGED <<cfgFiles, uuidFiles, cfgHost, uuidsMade, cfgCalls>>
  /\ UNCHANGED outsideCfg

\* saveFile: writeJsonFile writes JSON.stringify of the document
writeJsonFile(i) ==
  /\ cfgOps[i].pc = "write"
  /\ LET op == cfgOps[i]
         file == getConfigFilePath(op.scope)
     IN  /\ cfgFiles' = [cfgFiles EXCEPT ![file] = JsonFile(JsonDocument(file, op.out))]
         /\ Settle(i, Finished(op, IF op.kind = "remove" THEN TRUE ELSE Undefined))
  /\ UNCHANGED <<uuidFiles, cfgHost, uuidsMade, cfgCalls>>
  /\ UNCHANGED outsideCfg

\* the host opens another library
cfgSwitchLibrary(path) ==
  /\ path # cfgHost.path
  /\ uuidFiles[path].state # "nofolder"
  /\ cfgHost' = Library(path)
  /\ cfgDone' = NoOp
  /\ UNCHANGED <<cfgFiles, uuidFiles, cfgOps, uuidsMade, cfgCalls>>
  /\ UNCHANGED outsideCfg

\* the open library's folder is renamed, cooler-uuid.json moving with it
cfgRenameLibrary(path) ==
  /\ uuidFiles[path].state = "nofolder"
  /\ uuidFiles' = [uuidFiles EXCEPT ![path] = uuidFiles[cfgHost.path],
                                    ![cfgHost.path] = NoFolder]
  /\ cfgHost' = Library(path)
  /\ cfgDone' = [pc |-> "renamed"]
  /\ UNCHANGED <<cfgFiles, cfgOps, uuidsMade, cfgCalls>>
  /\ UNCHANGED outsideCfg

\* ===================================================== bare library forests
\* BareFolders, BareSmartFolders and BareTagGroups over metadata.json, each
\* method one updateLibraryMetadata: read, update a clone, write.
NodeIds == {"a", "b", "c"}
NodeNames == {"n", "m"}
Entities == {"folders", "smartFolders", "tagsGroups"}
Forests == {"folders", "smartFolders"}
NoParent == ""                               \* add(folder) without parentId

\* a folder, smart folder or tag group; bare: it has no children property
Node(id, name, children, bare) ==
  [id |-> id, name |-> name, children |-> children, bare |-> bare]
Leaf(id, name) == Node(id, name, <<>>, TRUE)

\* Object.assign(target, patch) for the patches given
NodePatches == {("name" :> "m"), ("id" :> "b")}
Assign(target, patch) ==
  [f \in DOMAIN target |-> IF f \in DOMAIN patch THEN patch[f] ELSE target[f]]

\* findById: the position (index path) of the first node with the id in
\* depth-first order, <<>> for undefined
RECURSIVE FindFrom(_, _, _)
FindFrom(folders, i, id) ==
  IF i > Len(folders) THEN <<>>
  ELSE IF folders[i].id = id THEN <<i>>
  ELSE LET found == FindFrom(folders[i].children, 1, id)
       IN  IF found # <<>> THEN <<i>> \o found ELSE FindFrom(folders, i + 1, id)
findById(folders, id) == FindFrom(folders, 1, id)

RECURSIVE NodeAt(_, _)
NodeAt(folders, at) ==
  IF Len(at) = 1 THEN folders[at[1]] ELSE NodeAt(folders[at[1]].children, Tail(at))

\* the forest with the node at a position replaced (the in-place mutation
\* of the clone)
RECURSIVE ReplaceAt(_, _, _)
ReplaceAt(folders, at, node) ==
  IF Len(at) = 1 THEN [folders EXCEPT ![at[1]] = node]
  ELSE [folders EXCEPT ![at[1]] =
          [@ EXCEPT !.children = ReplaceAt(@, Tail(at), node)]]

\* removeById: filter, then map every remaining node to a copy with a
\* children array
RECURSIVE removeById(_, _)
removeById(folders, id) ==
  LET kept == SelectSeq(folders, LAMBDA folder : folder.id # id)
  IN  [i \in 1..Len(kept) |->
         [kept[i] EXCEPT !.children = removeById(kept[i].children, id), !.bare = FALSE]]

\* every id in a forest, each as often as it occurs
RECURSIVE IdsOf(_)
IdsOf(folders) ==
  IF folders = <<>> THEN <<>>
  ELSE <<Head(folders).id>> \o IdsOf(Head(folders).children) \o IdsOf(Tail(folders))

EntityName(entity) ==
  CASE entity = "folders" -> "folder"
    [] entity = "smartFolders" -> "smart folder"
    [] entity = "tagsGroups" -> "tag group"

\* new Error(`... not found: ${id}`)
NotFound(what, entity, id) == [what |-> what, entity |-> EntityName(entity), id |-> id]

\* what the update function of a method returns or throws
Returns(meta) == [threw |-> FALSE, error |-> NotFound("", "folders", ""), next |-> meta]
Throws(error, meta) == [threw |-> TRUE, error |-> error, next |-> meta]

\* mutant of addUpdate: a missing parent appends to the root
addUpdate_ToRoot(meta, entity, node, parentId) ==
  LET at == IF parentId # NoParent /\ entity # "tagsGroups"
            THEN findById(meta[entity], parentId) ELSE <<>>
  IN  IF at # <<>>
      THEN LET parent == NodeAt(meta[entity], at)
           IN  Returns([meta EXCEPT ![entity] = ReplaceAt(@, at,
                 [parent EXCEPT !.children = Append(@, node), !.bare = FALSE])])
      ELSE Returns([meta EXCEPT ![entity] = Append(@, node)])

\* the update function of add(folder, parentId) / add(group)
addUpdate(meta, entity, node, parentId) ==
  IF parentId # NoParent /\ entity # "tagsGroups"
  THEN LET at == findById(meta[entity], parentId)
       IN  IF at = <<>> THEN Throws(NotFound("parent not found", entity, parentId), meta)
           ELSE LET parent == NodeAt(meta[entity], at)
                IN  Returns([meta EXCEPT ![entity] = ReplaceAt(@, at,
                      [parent EXCEPT !.children = Append(@, node), !.bare = FALSE])])
  ELSE Returns([meta EXCEPT ![entity] = Append(@, node)])

\* the update function of update(id, patch)
updateUpdate(meta, entity, id, patch) ==
  LET at == findById(meta[entity], id)
  IN  IF at = <<>> THEN Throws(NotFound("not found", entity, id), meta)
      ELSE Returns([meta EXCEPT ![entity] =
             ReplaceAt(@, at, Assign(NodeAt(meta[entity], at), patch))])

\* the update function of remove(id)
removeUpdate(meta, entity, id) ==
  IF entity = "tagsGroups"
  THEN Returns([meta EXCEPT ![entity] = SelectSeq(@, LAMBDA g : g.id # id)])
  ELSE Returns([meta EXCEPT ![entity] = removeById(@, id)])

\* update(structuredClone(current)) of the method in progress
ApplyUpdate(op, meta) ==
  CASE op.kind = "add" -> addUpdate(meta, op.entity, op.node, op.id)
    [] op.kind = "update" -> updateUpdate(meta, op.entity, op.id, op.patch)
    [] op.kind = "remove" -> removeUpdate(meta, op.entity, op.id)

\* metadata.json with nothing in it
EmptyMetadata == [folders |-> <<>>, smartFolders |-> <<>>, tagsGroups |-> <<>>]

ForestRest ==
  /\ metadata = EmptyMetadata
  /\ frOp = NoOp
  /\ frDone = NoOp
  /\ frCalls = 0

\* a method of BareFolders, BareSmartFolders or BareTagGroups is called:
\* updateLibraryMetadata starts reading metadata.json
forestCall(entity, kind, id, node, patch) ==
  /\ frOp.pc = "none"
  /\ frOp' = [pc |-> "read", entity |-> entity, kind |-> kind, id |-> id,
              node |-> node, patch |-> patch, next |-> EmptyMetadata,
              handed |-> "", current |-> EmptyMetadata]
  /\ frDone' = NoOp
  /\ frCalls' = frCalls + 1
  /\ UNCHANGED metadata
  /\ UNCHANGED outsideForest

\* every call the three layers offer
forestCalls ==
  \/ \E entity \in Entities, id \in NodeIds, parentId \in NodeIds \cup {NoParent} :
       /\ entity = "tagsGroups" => parentId = NoParent
       /\ forestCall(entity, "add", parentId, Leaf(id, "n"), <<>>)
  \/ \E entity \in Entities, id \in NodeIds, patch \in NodePatches :
       forestCall(entity, "update", id, Leaf(id, "n"), patch)
  \/ \E entity \in Entities, id \in NodeIds :
       forestCall(entity, "remove", id, Leaf(id, "n"), <<>>)

\* the object JSON.parse makes of metadata.json: ref names the object,
\* content is what it holds
Parsed(meta) == [ref |-> "parsed", content |-> meta]

\* a clone that is the very object it was given
structuredClone_Alias(object) == object

\* structuredClone(current): a new object with the same content
structuredClone(object) == [ref |-> "clone", content |-> object.content]

\* updateLibraryMetadata from the document read to the write it starts, or
\* to the rejection when the update function throws
readLibraryMetadata ==
  /\ frOp.pc = "read"
  /\ LET current == Parsed(metadata)
         draft == structuredClone(current)
         r == ApplyUpdate(frOp, draft.content)
     IN  IF r.threw
         THEN /\ frOp' = NoOp
              /\ frDone' = [pc |-> "done", op |-> frOp, threw |-> TRUE, error |-> r.error]
         ELSE /\ frOp' = [frOp EXCEPT !.pc = "write", !.next = r.next,
                                      !.handed = draft.ref,
                                      !.current = IF draft.ref = current.ref
                                                  THEN r.next
                                                  ELSE current.content]
              /\ frDone' = NoOp
  /\ UNCHANGED <<metadata, frCalls>>
  /\ UNCHANGED outsideForest

\* writeLibraryMetadata that stores only the entity the update touched
writeLibraryMetadata_OnlyEntity ==
  /\ frOp.pc = "write"
  /\ metadata' = [EmptyMetadata EXCEPT ![frOp.entity] = frOp.next[frOp.entity]]
  /\ frOp' = NoOp
  /\ frDone' = [pc |-> "done", op |-> frOp, threw |-> FALSE, error |-> NotFound("", "folders", "")]
  /\ UNCHANGED frCalls
  /\ UNCHANGED outsideForest

\* writeLibraryMetadata, and the method returns
writeLibraryMetadata ==
  /\ frOp.pc = "write"
  /\ metadata' = frOp.next
  /\ frOp' = NoOp
  /\ frDone' = [pc |-> "done", op |-> frOp, threw |-> FALSE,
                error |-> NotFound("", "folders", "")]
  /\ UNCHANGED frCalls
  /\ UNCHANGED outsideForest

\* ============================================================ item filters
\* filter.ts.  A JavaScript value is a record: its type, and its content as
\* a string (sequence of characters), a number or an array of primitives.
JsValue(t, s, n, a) == [t |-> t, s |-> s, n |-> n, a |-> a]
Str(s) == JsValue("string", s, 0, <<>>)
Num(n) == JsValue("number", <<>>, n, <<>>)
Arr(a) == JsValue("array", <<>>, 0, a)
Undef == JsValue("undefined", <<>>, 0, <<>>)
JsNull == JsValue("null", <<>>, 0, <<>>)
\* the number Infinity: typeof gives 'number', no integer is as large
Infinity == JsValue("number", <<"I", "n", "f", "i", "n", "i", "t", "y">>, 0, <<>>)

Digits == <<"0", "1", "2", "3", "4", "5", "6", "7", "8", "9">>

RECURSIVE Join(_), StringOf(_)
\* String(value): a string is itself, a number its digit, undefined and null
\* their words, an array its elements joined by commas
StringOf(v) ==
  CASE v.t = "string" -> v.s
    [] v = Infinity -> v.s
    [] v.t = "number" /\ v # Infinity -> <<Digits[v.n + 1]>>
    [] v.t = "undefined" -> <<"u", "n", "d", "e", "f", "i", "n", "e", "d">>
    [] v.t = "null" -> <<"n", "u", "l", "l">>
    [] v.t = "array" -> Join(v.a)
Join(a) ==
  IF a = <<>> THEN <<>>
  ELSE IF Len(a) = 1 THEN StringOf(a[1])
  ELSE StringOf(a[1]) \o <<",">> \o Join(Tail(a))

\* the number the relational operators convert the value to; a value that
\* converts to NaN has no number
HasNumber(v) ==
  \/ v.t = "number" /\ v # Infinity
  \/ v.t = "null"
  \/ v.t \in {"string", "array"} /\
       (StringOf(v) = <<>> \/ \E d \in 1..10 : StringOf(v) = <<Digits[d]>>)
ToNumber(v) ==
  IF v.t = "number" THEN v.n
  ELSE IF v.t = "null" \/ StringOf(v) = <<>> THEN 0
  ELSE (CHOOSE d \in 1..10 : StringOf(v) = <<Digits[d]>>) - 1

\* String.prototype.includes / startsWith / endsWith
StartsWith(s, sub) == Len(sub) <= Len(s) /\ SubSeq(s, 1, Len(sub)) = sub
EndsWith(s, sub) ==
  Len(sub) <= Len(s) /\ SubSeq(s, Len(s) - Len(sub) + 1, Len(s)) = sub
Includes(s, sub) ==
  \E i \in 1..(Len(s) + 1) : i + Len(sub) - 1 <= Len(s) /\ SubSeq(s, i, i + Len(sub) - 1) = sub

\* new RegExp(pattern, 'i') for patterns of letters and dots; a pattern with
\* an unmatched parenthesis is a SyntaxError
LowerCase(c) == IF c = "A" THEN "a" ELSE IF c = "B" THEN "b" ELSE c
ValidPattern(pattern) == \A i \in 1..Len(pattern) : pattern[i] # "("
RegexTest(pattern, s) ==
  \E i \in 1..(Len(s) + 1) :
    /\ i + Len(pattern) - 1 <= Len(s)
    /\ \A j \in 1..Len(pattern) :
         pattern[j] = "." \/ LowerCase(pattern[j]) = LowerCase(s[i + j - 1])

\* Array.prototype.includes
ArrayIncludes(a, v) == \E i \in 1..Len(a) : a[i] = v

isEmptyValue(value) ==
  \/ value.t \in {"undefined", "null"}
  \/ value.t = "string" /\ Len(value.s) = 0
  \/ value.t = "array" /\ Len(value.a) = 0

\* item[rule.property]
ItemValue(item, property) ==
  IF property \in DOMAIN item THEN item[property] ELSE Undef

\* itemValue > ruleValue and the like, on a number and any value
Compare(op, n, ruleValue) ==
  IF ruleValue = Infinity THEN op \in {"lt", "lte"}
  ELSE
  /\ HasNumber(ruleValue)
  /\ CASE op = "gt" -> n > ToNumber(ruleValue)
       [] op = "gte" -> n >= ToNumber(ruleValue)
       [] op = "lt" -> n < ToNumber(ruleValue)
       [] op = "lte" -> n <= ToNumber(ruleValue)

\* matchesRule throws: the only throwing statement is new RegExp
RuleThrows(item, rule) ==
  /\ rule.method = "matches"
  /\ ItemValue(item, rule.property).t = "string"
  /\ ~ValidPattern(StringOf(rule.value))

\* matchesRule where it returns
matchesRule(item, rule) ==
  LET itemValue == ItemValue(item, rule.property)
      ruleValue == rule.value
      m == rule.method
      bothArrays == itemValue.t = "array" /\ ruleValue.t = "array"
      elem(i) == IF i <= Len(ruleValue.a) THEN ruleValue.a[i] ELSE Undef
  IN  CASE m = "is" -> itemValue = ruleValue /\ itemValue.t # "array"
        [] m = "isNot" -> ~(itemValue = ruleValue /\ itemValue.t # "array")
        [] m = "contains" -> itemValue.t = "string" /\ Includes(itemValue.s, StringOf(ruleValue))
        [] m = "notContains" ->
             itemValue.t = "string" /\ ~Includes(itemValue.s, StringOf(ruleValue))
        [] m = "startsWith" ->
             itemValue.t = "string" /\ StartsWith(itemValue.s, StringOf(ruleValue))
        [] m = "endsWith" -> itemValue.t = "string" /\ EndsWith(itemValue.s, StringOf(ruleValue))
        [] m = "matches" ->
             itemValue.t = "string" /\ RegexTest(StringOf(ruleValue), itemValue.s)
        [] m \in {"gt", "gte", "lt", "lte"} ->
             itemValue.t = "number" /\ Compare(m, itemValue.n, ruleValue)
        [] m = "between" ->
             /\ itemValue.t = "number" /\ ruleValue.t = "array"
             /\ Compare("gte", itemValue.n, elem(1))
             /\ Compare("lte", itemValue.n, elem(2))
        [] m = "isEmpty" -> isEmptyValue(itemValue)
        [] m = "isNotEmpty" -> ~isEmptyValue(itemValue)
        [] m = "includesAny" ->
             bothArrays /\ \E i \in 1..Len(ruleValue.a) : ArrayIncludes(itemValue.a, ruleValue.a[i])
        [] m = "includesAll" ->
             bothArrays /\ \A i \in 1..Len(ruleValue.a) : ArrayIncludes(itemValue.a, ruleValue.a[i])
        [] m = "excludesAny" ->
             bothArrays /\ \E i \in 1..Len(ruleValue.a) : ~ArrayIncludes(itemValue.a, ruleValue.a[i])
        [] m = "excludesAll" ->
             bothArrays /\ \A i \in 1..Len(ruleValue.a) : ~ArrayIncludes(itemValue.a, ruleValue.a[i])
        [] OTHER -> FALSE

\* results.every(Boolean) / results.some(Boolean) by the match mode
Combine(match, results) ==
  IF match = "AND" THEN \A i \in 1..Len(results) : results[i]
  ELSE \E i \in 1..Len(results) : results[i]

ConditionThrows(item, condition) ==
  \E i \in 1..Len(condition.rules) : RuleThrows(item, condition.rules[i])

\* mutant of matchesCondition: a condition without rules matches by its mode
matchesCondition_EmptyByMode(item, condition) ==
  Combine(condition.match,
          [i \in 1..Len(condition.rules) |-> matchesRule(item, condition.rules[i])])

matchesCondition(item, condition) ==
  IF Len(condition.rules) = 0 THEN TRUE
  ELSE Combine(condition.match,
               [i \in 1..Len(condition.rules) |-> matchesRule(item, condition.rules[i])])

FilterThrows(item, filter) ==
  \E i \in 1..Len(filter.conditions) : ConditionThrows(item, filter.conditions[i])

matchesFilter(item, filter) ==
  IF Len(filter.conditions) = 0 THEN TRUE
  ELSE Combine(filter.match,
               [i \in 1..Len(filter.conditions) |->
                  matchesCondition(item, filter.conditions[i])])

\* filterItems: items.filter, which throws when a callback throws
FilterItemsThrows(items, filter) == \E i \in 1..Len(items) : FilterThrows(items[i], filter)
filterItems(items, filter) == SelectSeq(items, LAMBDA item : matchesFilter(item, filter))

\* the filter engine before any call
FilterRest ==
  /\ fltItems = <<>>
  /\ fltFilter = [conditions |-> <<>>, match |-> "AND"]
  /\ fltResult = NoOp

\* filterItems(items, filter) is called and returns or throws
callFilterItems ==
  /\ fltResult = NoOp
  /\ fltResult' = [pc |-> "done",
                   threw |-> FilterItemsThrows(fltItems, fltFilter),
                   items |-> IF FilterItemsThrows(fltItems, fltFilter) THEN <<>>
                             ELSE filterItems(fltItems, fltFilter)]
  /\ UNCHANGED <<fltItems, fltFilter>>
  /\ UNCHANGED outsideFilter

\* matchesRule(item, rule) is called on the one item and the rule held as
\* the arguments, and returns or throws
callMatchesRule ==
  /\ fltResult = NoOp
  /\ fltResult' = [pc |-> "done",
                   threw |-> RuleThrows(fltItems[1], fltFilter),
                   value |-> ~RuleThrows(fltItems[1], fltFilter) /\ matchesRule(fltItems[1], fltFilter)]
  /\ UNCHANGED <<fltItems, fltFilter>>
  /\ UNCHANGED outsideFilter

\* filters.flatMap((f) => f.conditions)
RECURSIVE FlatConditions(_)
FlatConditions(filters) ==
  IF filters = <<>> THEN <<>>
  ELSE filters[1].conditions \o FlatConditions(Tail(filters))

combineFilters(filters) == [conditions |-> FlatConditions(filters), match |-> "AND"]
anyOfFilters(filters) == [conditions |-> FlatConditions(filters), match |-> "OR"]

\* matchesFilter(item, combineFilters(...filters)) is called on the item and
\* the filters held as the arguments
callCombineFilters ==
  /\ fltResult = NoOp
  /\ fltResult' = [pc |-> "done", by |-> "combineFilters",
                   threw |-> FilterThrows(fltItems[1], combineFilters(fltFilter)),
                   value |-> matchesFilter(fltItems[1], combineFilters(fltFilter))]
  /\ UNCHANGED <<fltItems, fltFilter>>
  /\ UNCHANGED outsideFilter

\* matchesFilter(item, anyOfFilters(...filters)) likewise
callAnyOfFilters ==
  /\ fltResult = NoOp
  /\ fltResult' = [pc |-> "done", by |-> "anyOfFilters",
                   threw |-> FilterThrows(fltItems[1], anyOfFilters(fltFilter)),
                   value |-> matchesFilter(fltItems[1], anyOfFilters(fltFilter))]
  /\ UNCHANGED <<fltItems, fltFilter>>
  /\ UNCHANGED outsideFilter

\* ----------------------------------------------------------- web API client
\* string | undefined: the token values the client can be given
Absent == "undefined"
NoProvider == "no getToken"
TokenValues == {Absent, "", "t"}
ProviderValues == {NoProvider, Absent, "", "p"}
ApiPaths == {"application/info", "item/list"}
NoTokenError == "No API token found"
RequestFailed == "Eagle API request failed"

\* a client constructed without options, before any request
ApiRest ==
  /\ apiToken = Absent
  /\ apiGetToken = NoProvider
  /\ apiRequests = [i \in 1..MaxRequests |-> NoOp]
  /\ apiFetches = <<>>

\* this.getToken?.() ?? this.token
TokenOrAbsent ==
  IF apiGetToken \in {NoProvider, Absent} THEN apiToken ELSE apiGetToken

\* resolveToken throws when the token is undefined or empty
resolveTokenThrows == TokenOrAbsent \in {Absent, ""}

\* request(path): the token is resolved and the fetch is issued, or the
\* call rejects with the error resolveToken throws
request(i, path) ==
  /\ apiRequests[i] = NoOp
  /\ \A j \in 1..(i - 1) : apiRequests[j] # NoOp
  /\ IF resolveTokenThrows
     THEN /\ apiRequests' = [apiRequests EXCEPT ![i] =
                               [pc |-> "rejected", path |-> path, error |-> NoTokenError,
                                provided |-> apiGetToken]]
          /\ UNCHANGED apiFetches
     ELSE /\ apiRequests' = [apiRequests EXCEPT ![i] =
                               [pc |-> "fetching", path |-> path, token |-> TokenOrAbsent]]
          /\ apiFetches' = Append(apiFetches, [path |-> path, token |-> TokenOrAbsent])
  /\ UNCHANGED <<apiToken, apiGetToken>>
  /\ UNCHANGED outsideApi

\* the response arrives: response.ok gives the data, otherwise an error
respond(i, ok) ==
  /\ apiRequests[i] # NoOp
  /\ apiRequests[i].pc = "fetching"
  /\ apiRequests' = [apiRequests EXCEPT ![i] =
                       IF ok THEN [pc |-> "resolved", path |-> @.path, token |-> @.token]
                       ELSE [pc |-> "rejected", path |-> @.path, error |-> RequestFailed,
                             provided |-> apiGetToken]]
  /\ UNCHANGED <<apiToken, apiGetToken, apiFetches>>
  /\ UNCHANGED outsideApi

\* the application's token provider starts returning another value
providerReturns(value) ==
  /\ apiGetToken # NoProvider
  /\ value # NoProvider
  /\ apiGetToken' = value
  /\ UNCHANGED <<apiToken, apiRequests, apiFetches>>
  /\ UNCHANGED outsideApi

\* --------------------------------------------------------- bare item writes
ItemId == "i1"                               \* this.id of the BareItem
Clock == {"900"}                             \* what Date.now() returns
ItemTags == {<<>>, <<"t">>, <<"s", "t", "s">>}

\* the ItemMetadata given to write; Absent is a property that is undefined
ItemData ==
  { [ext |-> e[1], url |-> e[2], tags |-> tags, lastModified |-> m[1],
     modificationTime |-> m[2]] :
      e \in {<<"png", Absent>>, <<"url", "u">>, <<"url", Absent>>},
      tags \in ItemTags,
      m \in {<<Absent, Absent>>, <<Absent, "200">>, <<"100", "200">>} }

\* WriteItemOptions
ItemOptions == [syncUrlFile : {Absent, "false"}, updateIndexes : {Absent, "false"}]

\* the .url companion: name '' is no such file in the directory
UrlFile(name, url, writable) == [name |-> name, url |-> url, writable |-> writable]
NoUrlFile == UrlFile("", "", TRUE)

\* a tags.json document: has names the properties it holds
TagsIndex(has, historyTags, starredTags) ==
  [has |-> has, historyTags |-> historyTags, starredTags |-> starredTags]

ItemRest ==
  /\ itemFile = AbsentFile
  /\ urlFile = NoUrlFile
  /\ mtimeFile = AbsentFile
  /\ tagsFile = AbsentFile
  /\ itOp = NoOp
  /\ itDone = NoOp
  /\ itCalls = 0

\* the four files as they are
ItemFiles == <<itemFile, urlFile, mtimeFile, tagsFile>>

\* for (const tag of tags) set.add(tag)
RECURSIVE AddAll(_, _)
AddAll(set, tags) ==
  IF tags = <<>> THEN set ELSE AddAll(SetAdd(set, Head(tags)), Tail(tags))

\* item.write(data, options) is called: the writeJson of metadata.json starts
itemWrite(data, options) ==
  /\ itOp.pc = "none"
  /\ itOp' = [pc |-> "writeItem", data |-> data, options |-> options,
              mtimeIndex |-> EmptyData,
              tagsIndex |-> TagsIndex({}, <<>>, <<>>),
              before |-> ItemFiles]
  /\ itDone' = NoOp
  /\ itCalls' = itCalls + 1
  /\ UNCHANGED <<itemFile, urlFile, mtimeFile, tagsFile>>
  /\ UNCHANGED outsideItem

\* where write goes after the metadata.json of the item is written
AfterUrl(op) == IF op.options.updateIndexes # "false" THEN "readMtime" ELSE "done"
AfterItem(op) ==
  IF op.data.ext = "url" /\ op.options.syncUrlFile # "false" THEN "writeUrl"
  ELSE AfterUrl(op)

\* the write goes on to its next await, or resolves
Advance(op, pc) ==
  IF pc = "done"
  THEN /\ itOp' = NoOp
       /\ itDone' = [pc |-> "done", op |-> op, threw |-> FALSE, error |-> ""]
  ELSE /\ itOp' = [op EXCEPT !.pc = pc]
       /\ itDone' = NoOp

\* an awaited file operation rejects and write rejects with it
Reject(op, error) ==
  /\ itOp' = NoOp
  /\ itDone' = [pc |-> "done", op |-> op, threw |-> TRUE, error |-> error]

\* writeJson(itemMetadataPath(id), data) has written
writeItemMetadata ==
  /\ itOp.pc = "writeItem"
  /\ itemFile' = JsonFile(itOp.data)
  /\ Advance(itOp, AfterItem(itOp))
  /\ UNCHANGED <<urlFile, mtimeFile, tagsFile, itCalls>>
  /\ UNCHANGED outsideItem

\* writeUrlFile(data.url ?? ''): an existing .url file is overwritten under
\* its name, else <id>.url is created
writeUrlFile ==
  /\ itOp.pc = "writeUrl"
  /\ IF urlFile.writable
     THEN /\ urlFile' = UrlFile(IF urlFile.name = "" THEN "i1.url" ELSE urlFile.name,
                                IF itOp.data.url = Absent THEN "" ELSE itOp.data.url,
                                TRUE)
          /\ Advance(itOp, AfterUrl(itOp))
     ELSE /\ Reject(itOp, "EACCES")
          /\ UNCHANGED urlFile
  /\ UNCHANGED <<itemFile, mtimeFile, tagsFile, itCalls>>
  /\ UNCHANGED outsideItem

\* a timestamp that prefers modificationTime
Timestamp_ModificationFirst(data, now) ==
  IF data.modificationTime # Absent THEN data.modificationTime
  ELSE IF data.lastModified # Absent THEN data.lastModified
  ELSE now

\* data.lastModified ?? data.modificationTime ?? Date.now()
Timestamp(data, now) ==
  IF data.lastModified # Absent THEN data.lastModified
  ELSE IF data.modificationTime # Absent THEN data.modificationTime
  ELSE now

\* updateIndexes from the read of mtime.json to the write it starts
readMtimeIndex ==
  /\ itOp.pc = "readMtime"
  /\ IF mtimeFile.state = "json"
     THEN \E now \in Clock :
            LET mtimeIndex == mtimeFile.root
                ts == Timestamp(itOp.data, now)
            IN  /\ itOp' = [itOp EXCEPT
                     !.pc = "writeMtime",
                     !.mtimeIndex = [k \in DOMAIN mtimeIndex \cup {ItemId} |->
                                       IF k = ItemId THEN ts ELSE mtimeIndex[k]]]
                /\ itDone' = NoOp
     ELSE Reject(itOp, IF mtimeFile.state = "absent" THEN "ENOENT" ELSE "SyntaxError")
  /\ UNCHANGED <<itemFile, urlFile, mtimeFile, tagsFile, itCalls>>
  /\ UNCHANGED outsideItem

\* writeMtimeIndex has written; then if (data.tags?.length)
writeMtimeIndex ==
  /\ itOp.pc = "writeMtime"
  /\ mtimeFile' = JsonFile(itOp.mtimeIndex)
  /\ Advance(itOp, IF Len(itOp.data.tags) > 0 THEN "readTags" ELSE "done")
  /\ UNCHANGED <<itemFile, urlFile, tagsFile, itCalls>>
  /\ UNCHANGED outsideItem

\* updateIndexes from the read of tags.json to the write it starts
readTagsIndex ==
  /\ itOp.pc = "readTags"
  /\ IF tagsFile.state = "json"
     THEN LET tagsIndex == tagsFile.root
              historyTags == IF "historyTags" \in tagsIndex.has
                             THEN tagsIndex.historyTags ELSE <<>>
              set == AddAll(AddAll(<<>>, historyTags), itOp.data.tags)
          IN  /\ itOp' = [itOp EXCEPT
                   !.pc = "writeTags",
                   !.tagsIndex = TagsIndex({"historyTags", "starredTags"}, set,
                                   IF "starredTags" \in tagsIndex.has
                                   THEN tagsIndex.starredTags ELSE <<>>)]
              /\ itDone' = NoOp
     ELSE Reject(itOp, IF tagsFile.state = "absent" THEN "ENOENT" ELSE "SyntaxError")
  /\ UNCHANGED <<itemFile, urlFile, mtimeFile, tagsFile, itCalls>>
  /\ UNCHANGED outsideItem

\* writeTagsIndex has written and write resolves
writeTagsIndex ==
  /\ itOp.pc = "writeTags"
  /\ tagsFile' = JsonFile(itOp.tagsIndex)
  /\ Advance(itOp, "done")
  /\ UNCHANGED <<itemFile, urlFile, mtimeFile, itCalls>>
  /\ UNCHANGED outsideItem

\* ----------------------------------------------------------- filter builder
\* a new ItemFilterBuilder
BuilderRest ==
  /\ bldHeap = <<>>
  /\ bldConditions = <<>>
  /\ bldCurrent = 0
  /\ bldMatch = "AND"
  /\ bldPending = None
  /\ bldBuilt = FALSE
  /\ bldCalls = 0

Rule(property, method, value) == [property |-> property, method |-> method, value |-> value]

\* the properties and the terminators the calls are made with
BuilderProperties == {"name", "star"}
BuilderTerminators ==
  { <<"is", Str(<<"a">>)>>, <<"gte", Num(1)>>, <<"lt", Infinity>>,
    <<"between", Arr(<<Num(0), Infinity>>)>>, <<"isEmpty", Undef>> }
\* the condition objects given to addCondition
BuilderConditions ==
  { [rules |-> <<Rule("star", "gte", Num(1))>>, match |-> "OR"],
    [rules |-> <<>>, match |-> "AND"] }

\* build(): the object { conditions: this.conditions, match: this.conditionMatch },
\* whose conditions are the live condition objects
build(heap, conditions, match) ==
  [conditions |-> [i \in 1..Len(conditions) |-> heap[conditions[i]]], match |-> match]

\* a builder call happens: the filter build() returned shares the condition
\* objects and the conditions array, so it changes with them; its match was
\* copied by build()
BuilderStep ==
  /\ bldCalls < MaxBuilderCalls
  /\ fltResult = NoOp
  /\ bldCalls' = bldCalls + 1
  /\ fltFilter' = IF bldBuilt THEN build(bldHeap', bldConditions', fltFilter.match)
                  ELSE fltFilter
  /\ UNCHANGED <<fltItems, fltResult, bldBuilt>>
  /\ UNCHANGED outsideBuilder

\* this.currentCondition = { rules: [], match: 'AND' }; push; new RuleBuilder
NewCondition(property, by) ==
  /\ bldHeap' = Append(bldHeap, [rules |-> <<>>, match |-> "AND"])
  /\ bldConditions' = Append(bldConditions, Len(bldHeap) + 1)
  /\ bldCurrent' = Len(bldHeap) + 1
  /\ bldPending' = [condition |-> Len(bldHeap) + 1, property |-> property, by |-> by]

where(property) ==
  /\ NewCondition(property, "where")
  /\ UNCHANGED bldMatch
  /\ BuilderStep

\* and: this.where(property) without a current condition
and(property) ==
  IF bldCurrent = 0
  THEN /\ NewCondition(property, "and")
       /\ UNCHANGED bldMatch
       /\ BuilderStep
  ELSE /\ bldPending' = [condition |-> bldCurrent, property |-> property, by |-> "and"]
       /\ UNCHANGED <<bldHeap, bldConditions, bldCurrent, bldMatch>>
       /\ BuilderStep

\* or: the top-level mode becomes OR, and a new condition starts
or(property) ==
  /\ NewCondition(property, "or")
  /\ bldMatch' = "OR"
  /\ BuilderStep

\* addCondition(condition) with a new object
addCondition(condition) ==
  /\ bldHeap' = Append(bldHeap, condition)
  /\ bldConditions' = Append(bldConditions, Len(bldHeap) + 1)
  /\ bldCurrent' = Len(bldHeap) + 1
  /\ UNCHANGED <<bldMatch, bldPending>>
  /\ BuilderStep

\* addCondition(condition) with an object the builder already holds
addConditionAgain(ref) ==
  /\ ref \in 1..Len(bldHeap)
  /\ bldConditions' = Append(bldConditions, ref)
  /\ bldCurrent' = ref
  /\ UNCHANGED <<bldHeap, bldMatch, bldPending>>
  /\ BuilderStep

setConditionMatch(match) ==
  /\ bldMatch' = match
  /\ bldCalls < MaxBuilderCalls
  /\ fltResult = NoOp
  /\ bldCalls' = bldCalls + 1
  /\ UNCHANGED <<fltItems, fltFilter, fltResult, bldBuilt>>
  /\ UNCHANGED <<bldHeap, bldConditions, bldCurrent, bldPending>>
  /\ UNCHANGED outsideBuilder

\* RuleBuilder.addRule through one of the terminators
addRule(method, value) ==
  /\ bldPending # None
  /\ bldHeap' = [bldHeap EXCEPT ![bldPending.condition].rules =
                   Append(@, Rule(bldPending.property, method, value))]
  /\ bldPending' = None
  /\ UNCHANGED <<bldConditions, bldCurrent, bldMatch>>
  /\ BuilderStep

\* build() is called, between rules
buildFilter ==
  /\ ~bldBuilt
  /\ bldPending = None
  /\ fltResult = NoOp
  /\ bldBuilt' = TRUE
  /\ fltFilter' = build(bldHeap, bldConditions, bldMatch)
  /\ UNCHANGED <<fltItems, fltResult>>
  /\ UNCHANGED <<bldHeap, bldConditions, bldCurrent, bldMatch, bldPending, bldCalls>>
  /\ UNCHANGED outsideBuilder

\* JSON.parse(JSON.stringify(value)): a number that is not finite becomes
\* null, an undefined array element becomes null
JsonValue(v) ==
  IF v = Infinity THEN JsNull
  ELSE IF v.t = "array"
       THEN Arr([i \in 1..Len(v.a) |->
                   IF v.a[i] = Infinity \/ v.a[i] = Undef THEN JsNull ELSE v.a[i]])
       ELSE v
\* ... of a rule: an undefined value is left out and reads as undefined
JsonRule(rule) == Rule(rule.property, rule.method, JsonValue(rule.value))
JsonCondition(c) ==
  [rules |-> [i \in 1..Len(c.rules) |-> JsonRule(c.rules[i])], match |-> c.match]
JsonFilter(filter) ==
  [conditions |-> [i \in 1..Len(filter.conditions) |-> JsonCondition(filter.conditions[i])],
   match |-> filter.match]

\* matchesFilter(item, filter) and matchesFilter(item, copy) are called on
\* the filter build() returned and on its JSON copy
callMatchesFilterTwice ==
  /\ bldBuilt
  /\ fltResult = NoOp
  /\ fltResult' = [pc |-> "done",
                   threw |-> FilterThrows(fltItems[1], fltFilter),
                   value |-> matchesFilter(fltItems[1], fltFilter),
                   copy |-> matchesFilter(fltItems[1], JsonFilter(fltFilter))]
  /\ UNCHANGED <<fltItems, fltFilter>>
  /\ UNCHANGED outsideFilter

\* ----------------------------------------------------------- specifications
\* The whole manager: every poller, the host switching libraries, host
\* queries failing, callbacks throwing and calling the API.  Subscribers keep
\* the default interval; maxEqualLookups varies.
Init ==
  /\ MgrInit
  /\ cmpArgs = None
  /\ cmpResult = None
  /\ CfgRest
  /\ ForestRest
  /\ FilterRest
  /\ BuilderRest
  /\ ApiRest
  /\ ItemRest
  /\ KeyRest

Next ==
  \/ Len(subs) < MaxSubs /\ \E cb \in Callbacks : subscribeLibrary(cb)
  \/ \E s \in 1..MaxSubs : unsubscribeLibrary(s)
  \/ Len(subs) < MaxSubs
       /\ \E p \in Children, n \in Lookups : subscribeChild(p, DefaultInterval, n)
  \/ \E s \in 1..MaxSubs : unsubscribeChild(s)
  \/ \E p \in Children : timerTick(p)
  \/ \E p \in Children, i \in 1..MaxInflight : checkRejected(p, i)
  \/ \E p \in Children, i \in 1..MaxInflight : checkResolved(p, i)
  \/ libraryTick
  \/ invokeCallback
  \/ callbackReturns
  \/ callbackThrows
  \/ tickCompletes
  \/ \E path \in Paths : hostSwitchesLibrary(path)

Spec == Init /\ [][Next]_vars

\* The child pollers with subscribers that ask for different intervals.
NextIntervals ==
  \/ Len(subs) < MaxSubs
       /\ \E p \in Children, iv \in Intervals : subscribeChild(p, iv, DefaultMaxLookups)
  \/ \E s \in 1..MaxSubs : unsubscribeChild(s)
  \/ \E p \in Children : timerTick(p)
  \/ \E p \in Children, i \in 1..MaxInflight : checkRejected(p, i)
  \/ \E p \in Children, i \in 1..MaxInflight : checkResolved(p, i)
  \/ invokeCallback
  \/ callbackReturns
  \/ tickCompletes

SpecIntervals == Init /\ [][NextIntervals]_vars

\* The library watcher alone, with more onLibraryChange subscriptions.
NextLibrary ==
  \/ Len(subs) < MaxLibrarySubs /\ \E cb \in Callbacks : subscribeLibrary(cb)
  \/ \E s \in 1..MaxLibrarySubs : unsubscribeLibrary(s)
  \/ libraryTick
  \/ invokeCallback
  \/ callbackReturns
  \/ callbackThrows
  \/ tickCompletes
  \/ \E path \in Paths : hostSwitchesLibrary(path)

SpecLibrary == Init /\ [][NextLibrary]_vars

\* hasSelectionChanged on its own: every pair of id sequences up to MaxIdx
\* long, with every maxLookups from -2 to MaxLookupsArg.
CmpIds == 1..NumIds
CmpSeqs == UNION {[1..n -> CmpIds] : n \in 0..MaxIdx}
CmpLookups == {-2} \cup (-1..MaxLookupsArg)

InitCmp ==
  /\ MgrInit
  /\ cmpArgs \in [prev : CmpSeqs, curr : CmpSeqs, maxLookups : CmpLookups]
  /\ cmpResult = None
  /\ CfgRest
  /\ ForestRest
  /\ FilterRest
  /\ BuilderRest
  /\ ApiRest
  /\ ItemRest
  /\ KeyRest

compareSelection ==
  /\ cmpArgs # None
  /\ cmpResult = None
  /\ cmpResult' = [changed |->
                     hasSelectionChanged(cmpArgs.prev, cmpArgs.curr, cmpArgs.maxLookups)]
  /\ UNCHANGED cmpArgs
  /\ UNCHANGED outsideCmp

NextCmp == compareSelection

SpecCmp == InitCmp /\ [][NextCmp]_vars

\* The config store used by one caller that awaits each operation: every
\* scope, every public method, over config files that start absent,
\* malformed or already written to; the host switches or renames the library
\* between operations.
SeededSection(scope) == IF scope.thisPluginOnly THEN ("k" :> "2") ELSE ("j" :> "2")

\* a config file the scopes have written to, with the library at path L
SeededFile(file) ==
  IF file = "global.json" THEN JsonFile(("k" :> "2"))
  ELSE LET writers == {s \in Scopes : getConfigFilePath(s) = file /\ ~UsesUuid(s)}
           keyOf(s) == ConfigKeyOf(s, getLibraryIdentifier(
                         s.useLibraryNameAsLibIdentifier, Library(<<"L">>)))
       IN  JsonFile([key \in {keyOf(s) : s \in writers} |->
                       SeededSection(CHOOSE s \in writers : keyOf(s) = key)])

StartFiles ==
  { [f \in ConfigFiles |-> AbsentFile],
    [f \in ConfigFiles |-> MalformedFile],
    [f \in ConfigFiles |-> SeededFile(f)] }

ConfigRest ==
  /\ uuidFiles = [p \in LibraryPaths |-> IF p = <<"R">> THEN NoFolder ELSE AbsentFile]
  /\ cfgHost = Library(<<"L">>)
  /\ cfgOps = [i \in OpIds |-> NoOp]
  /\ cfgDone = NoOp
  /\ uuidsMade = 0
  /\ cfgCalls = 0
  /\ MgrInit
  /\ cmpArgs = None
  /\ cmpResult = None
  /\ ForestRest
  /\ FilterRest
  /\ BuilderRest
  /\ ApiRest
  /\ ItemRest
  /\ KeyRest

InitConfig ==
  /\ cfgFiles \in StartFiles
  /\ ConfigRest

NoneInProgress == \A i \in OpIds : cfgOps[i].pc = "none"

NextConfig ==
  \/ NoneInProgress /\ cfgCalls < MaxConfigOps /\ \E scope \in Scopes : configCall(1, scope)
  \/ loadFile(1)
  \/ readLibraryUuid(1)
  \/ writeLibraryUuid(1)
  \/ reloadFile(1)
  \/ writeJsonFile(1)
  \/ NoneInProgress /\ \E path \in LibraryPaths : cfgSwitchLibrary(path)
  \/ NoneInProgress /\ \E path \in LibraryPaths : cfgRenameLibrary(path)

SpecConfig == InitConfig /\ [][NextConfig]_vars

\* Two scopes whose sections live side by side in library.json, with
\* operations issued without awaiting the previous one.
SiblingScopes ==
  {Scope("librarybased", p, FALSE, FALSE) : p \in BOOLEAN}

NextConfigSiblings ==
  \/ cfgCalls < MaxSiblingOps /\ \E i \in OpIds, scope \in SiblingScopes :
       \/ \E v \in {"1", "2"} : cfgCall(i, scope, "set", "k", v)
       \/ cfgCall(i, scope, "remove", "k", Undefined)
       \/ cfgCall(i, scope, "clear", "", Undefined)
  \/ \E i \in OpIds : loadFile(i)
  \/ \E i \in OpIds : reloadFile(i)
  \/ \E i \in OpIds : writeJsonFile(i)

InitConfigSiblings ==
  /\ cfgFiles = [f \in ConfigFiles |-> AbsentFile]
  /\ ConfigRest

SpecConfigSiblings == InitConfigSiblings /\ [][NextConfigSiblings]_vars

\* The UUID scopes with operations issued without awaiting the previous one,
\* the host switching library at any await.
UuidScopes == {s \in Scopes : UsesUuid(s)}

NextConfigRace ==
  \/ cfgCalls < MaxRaceOps /\ \E i \in OpIds, scope \in UuidScopes :
       \/ cfgCall(i, scope, "set", "k", "1")
       \/ cfgCall(i, scope, "get", "k", Undefined)
  \/ \E i \in OpIds : loadFile(i)
  \/ \E i \in OpIds : readLibraryUuid(i)
  \/ \E i \in OpIds : writeLibraryUuid(i)
  \/ \E i \in OpIds : reloadFile(i)
  \/ \E i \in OpIds : writeJsonFile(i)
  \/ \E path \in LibraryPaths : cfgSwitchLibrary(path)

InitConfigRace ==
  /\ cfgFiles = [f \in ConfigFiles |-> AbsentFile]
  /\ ConfigRest

SpecConfigRace == InitConfigRace /\ [][NextConfigRace]_vars

\* The forest layers used by one caller that awaits each call, over a
\* library document whose ids are unique within each forest.
StartMetadata ==
  { EmptyMetadata,
    [folders |-> <<Node("a", "n", <<Leaf("b", "n")>>, FALSE)>>,
     smartFolders |-> <<Leaf("a", "n")>>,
     tagsGroups |-> <<Leaf("a", "n")>>] }

InitForest ==
  /\ metadata \in StartMetadata
  /\ frOp = NoOp
  /\ frDone = NoOp
  /\ frCalls = 0
  /\ MgrInit
  /\ cmpArgs = None
  /\ cmpResult = None
  /\ CfgRest
  /\ FilterRest
  /\ BuilderRest
  /\ ApiRest
  /\ ItemRest
  /\ KeyRest

NextForest ==
  \/ frCalls < MaxForestOps /\ forestCalls
  \/ readLibraryMetadata
  \/ writeLibraryMetadata

SpecForest == InitForest /\ [][NextForest]_vars

\* filterItems on every sequence of up to MaxItems of four item snapshots
\* and every filter of up to MaxConditions conditions of up to MaxRules rules
\* taken from four rules, one of which has an invalid pattern.
FilterItemSet ==
  { [name |-> Str(<<"a", "b">>), star |-> Num(1), tags |-> Arr(<<Str(<<"x">>)>>)],
    [name |-> Str(<<"b">>), star |-> Num(0), tags |-> Arr(<<>>)],
    [name |-> Str(<<"A">>), star |-> Num(0), tags |-> Undef],
    [name |-> Undef, star |-> Num(1), tags |-> Arr(<<Str(<<"x">>)>>)] }

FilterRuleSet ==
  { Rule("name", "contains", Str(<<"a">>)),
    Rule("star", "gte", Num(1)),
    Rule("tags", "includesAny", Arr(<<Str(<<"x">>)>>)),
    Rule("name", "matches", Str(<<"(">>)) }

SeqsUpTo(S, n) == UNION {[1..k -> S] : k \in 0..n}
FilterConditionSet == [rules : SeqsUpTo(FilterRuleSet, MaxRules), match : {"AND", "OR"}]
FilterSet == [conditions : SeqsUpTo(FilterConditionSet, MaxConditions), match : {"AND", "OR"}]

InitFilter ==
  /\ fltItems \in SeqsUpTo(FilterItemSet, MaxItems)
  /\ fltFilter \in FilterSet
  /\ fltResult = NoOp
  /\ MgrInit
  /\ cmpArgs = None
  /\ cmpResult = None
  /\ CfgRest
  /\ ForestRest
  /\ BuilderRest
  /\ ApiRest
  /\ ItemRest
  /\ KeyRest

NextFilter == callFilterItems

SpecFilter == InitFilter /\ [][NextFilter]_vars

\* matchesRule on every item value, method and rule value of bounded sets:
\* strings, integers, sequences, the absent value.
RuleValueSet ==
  { Str(<<>>), Str(<<"a">>), Str(<<"a", "b">>), Str(<<"1">>), Str(<<"(">>),
    Num(0), Num(1), Num(2),
    Arr(<<>>), Arr(<<Str(<<"a">>)>>), Arr(<<Str(<<"a">>), Str(<<"b">>)>>),
    Arr(<<Str(<<"1">>)>>), Arr(<<Num(0), Num(1)>>),
    Undef }
FilterMethods ==
  { "is", "isNot", "contains", "notContains", "startsWith", "endsWith", "matches",
    "gt", "gte", "lt", "lte", "between", "isEmpty", "isNotEmpty",
    "includesAny", "includesAll", "excludesAny", "excludesAll" }
UnknownMethod == "unknown"

RuleProperties == {"name", "star", "tags"}

InitRule ==
  /\ \E p \in RuleProperties, v \in RuleValueSet,
        m \in FilterMethods \cup {UnknownMethod}, r \in RuleValueSet :
       /\ fltItems = <<[x \in {p} |-> v]>>
       /\ fltFilter = Rule(p, m, r)
  /\ fltResult = NoOp
  /\ MgrInit
  /\ cmpArgs = None
  /\ cmpResult = None
  /\ CfgRest
  /\ ForestRest
  /\ BuilderRest
  /\ ApiRest
  /\ ItemRest
  /\ KeyRest

NextRule == callMatchesRule

SpecRule == InitRule /\ [][NextRule]_vars

\* one builder used on one item: any calls, then build(), then evaluation of
\* the filter and of its JSON copy
InitBuilder ==
  /\ \E item \in FilterItemSet : fltItems = <<item>>
  /\ fltFilter = [conditions |-> <<>>, match |-> "AND"]
  /\ fltResult = NoOp
  /\ BuilderRest
  /\ ApiRest
  /\ ItemRest
  /\ KeyRest
  /\ MgrInit
  /\ cmpArgs = None
  /\ cmpResult = None
  /\ CfgRest
  /\ ForestRest

NextBuilder ==
  \/ \E property \in BuilderProperties : where(property)
  \/ \E property \in BuilderProperties : and(property)
  \/ \E property \in BuilderProperties : or(property)
  \/ \E condition \in BuilderConditions : addCondition(condition)
  \/ \E ref \in 1..MaxBuilderCalls : addConditionAgain(ref)
  \/ \E match \in {"AND", "OR"} : setConditionMatch(match)
  \/ \E t \in BuilderTerminators : addRule(t[1], t[2])
  \/ buildFilter
  \/ callMatchesFilterTwice

SpecBuilder == InitBuilder /\ [][NextBuilder]_vars

\* combineFilters and anyOfFilters on one or two filters of up to two
\* conditions of at most one rule, evaluated on an item
CombineRuleSet == { Rule("star", "gte", Num(1)), Rule("name", "contains", Str(<<"a">>)) }
CombineConditionSet == [rules : SeqsUpTo(CombineRuleSet, 1), match : {"AND", "OR"}]
CombineFilterSet ==
  [conditions : SeqsUpTo(CombineConditionSet, MaxConditions), match : {"AND", "OR"}]

InitCombine ==
  /\ \E item \in FilterItemSet : fltItems = <<item>>
  /\ fltFilter \in SeqsUpTo(CombineFilterSet, MaxCombined) \ {<<>>}
  /\ fltResult = NoOp
  /\ BuilderRest
  /\ ApiRest
  /\ ItemRest
  /\ KeyRest
  /\ MgrInit
  /\ cmpArgs = None
  /\ cmpResult = None
  /\ CfgRest
  /\ ForestRest

NextCombine == callCombineFilters \/ callAnyOfFilters

SpecCombine == InitCombine /\ [][NextCombine]_vars

\* one client, constructed with any token and provider, and its requests
InitApi ==
  /\ apiToken \in TokenValues
  /\ apiGetToken \in ProviderValues
  /\ apiRequests = [i \in 1..MaxRequests |-> NoOp]
  /\ apiFetches = <<>>
  /\ FilterRest
  /\ BuilderRest
  /\ ItemRest
  /\ KeyRest
  /\ MgrInit
  /\ cmpArgs = None
  /\ cmpResult = None
  /\ CfgRest
  /\ ForestRest

NextApi ==
  \/ \E i \in 1..MaxRequests, path \in ApiPaths : request(i, path)
  \/ \E i \in 1..MaxRequests, ok \in BOOLEAN : respond(i, ok)
  \/ \E value \in ProviderValues : providerReturns(value)

SpecApi == InitApi /\ [][NextApi]_vars

\* one BareItem in a library whose indexes exist or not
StartMtimeFiles == {AbsentFile, JsonFile(("i2" :> "100") @@ ("all" :> "100"))}
StartTagsFiles ==
  { MalformedFile,
    JsonFile(TagsIndex({}, <<>>, <<>>)),
    JsonFile(TagsIndex({"historyTags", "starredTags"}, <<"x", "t">>, <<"x">>)) }
StartUrlFiles == {NoUrlFile, UrlFile("old.URL", "o", TRUE), UrlFile("old.URL", "o", FALSE)}

InitItem ==
  /\ itemFile \in {AbsentFile, JsonFile(CHOOSE data \in ItemData : data.ext = "png")}
  /\ urlFile \in StartUrlFiles
  /\ mtimeFile \in StartMtimeFiles
  /\ tagsFile \in StartTagsFiles
  /\ itOp = NoOp
  /\ itDone = NoOp
  /\ itCalls = 0
  /\ MgrInit
  /\ cmpArgs = None
  /\ cmpResult = None
  /\ CfgRest
  /\ ForestRest
  /\ FilterRest
  /\ BuilderRest
  /\ ApiRest
  /\ KeyRest

NextItem ==
  \/ itCalls < MaxItemWrites /\ \E data \in ItemData, options \in ItemOptions :
       itemWrite(data, options)
  \/ writeItemMetadata
  \/ writeUrlFile
  \/ readMtimeIndex
  \/ writeMtimeIndex
  \/ readTagsIndex
  \/ writeTagsIndex

SpecItem == InitItem /\ [][NextItem]_vars

\* getConfigKey on every pair of library-scoped instances over three
\* libraries and two plugins
KeyLibraries ==
  { [path |-> <<"/", "L">>, name |-> <<"L">>, uuid |-> <<"u1">>],
    [path |-> <<"/", "L", "P">>, name |-> <<"L", "P">>, uuid |-> <<"u2">>],
    [path |-> <<"/", "R">>, name |-> <<"L">>, uuid |-> <<"u3">>] }
KeyPlugins == {<<"P">>, <<"Q">>}
KeyInstances ==
  [scope : {s \in Scopes : s.type = "librarybased"}, library : KeyLibraries,
   plugin : KeyPlugins]

InitKey ==
  /\ keyArgs \in KeyInstances \X KeyInstances
  /\ keyResult = None
  /\ MgrInit
  /\ cmpArgs = None
  /\ cmpResult = None
  /\ CfgRest
  /\ ForestRest
  /\ FilterRest
  /\ BuilderRest
  /\ ApiRest
  /\ ItemRest

NextKey == callGetConfigKey

SpecKey == InitKey /\ [][NextKey]_vars

\* =================================================================== claims

\* C1: after the host's library path has changed, no child poller invokes a
\* subscriber with an event whose previous value was observed under the old
\* library path and whose current value was observed under the new one.
C1_NoEventAcrossLibrarySwitch ==
  (fired # None /\ fired.poller \in Children)
    => ~(fired.previous.path < fired.current.path)

\* C2: a callback is invoked only for a subscription whose release handle
\* has not been called: once the handle of S has returned, no tick (in flight
\* or later, and whoever called the handle) invokes the callback for S.
C2_NoCallAfterRelease ==
  fired # None =>
    \E s \in 1..Len(subs) :
      /\ s \notin released
      /\ subs[s].kind = fired.poller
      /\ IF fired.poller = "library"
         THEN subs[s].callback = fired.callback
         ELSE s = fired.entry

\* C2 witness: a callback is invoked on a poller one of whose subscriptions
\* has already been released.
C2_Witness ==
  /\ iter # None
  /\ inCb
  /\ \E s \in released : subs[s].kind = iter.poller /\ s <= iter.first

\* C3: the initial check made when a first subscriber starts a child poller
\* invokes no callback.
C3_InitialCheckIsSilent == fired # None => ~fired.initial

\* the minimum of the intervals the current subscribers of p asked for
MinRequested(p) ==
  LET asked == {subs[s].interval : s \in Range(entries[p])}
  IN  CHOOSE m \in asked : \A x \in asked : m <= x

\* C4: the period of a running child poller is the minimum of the intervals
\* requested by its current subscribers.
C4_PeriodIsMinRequested ==
  \A p \in Children :
    (timerId[p] # 0 /\ entries[p] # <<>>) => timerId[p] = MinRequested(p)

\* C5: a tick whose host query fails invokes no callback, leaves the stored
\* previous value of its poller unchanged and leaves the timers running, for
\* the four child pollers and for the library-identity poller.
C5_FailedQuerySkipsTick ==
  [][ /\ fired' # None => ~fired'.failed
      /\ \A p \in Children, i \in 1..MaxInflight :
           checkRejected(p, i) =>
             (previous' = previous /\ timerId' = timerId /\ fired' = None)
      /\ (iter # None /\ iter.failed /\ iter' = None) =>
           (libraryState' = libraryState /\ libraryTimerId' = libraryTimerId)
    ]_vars

\* whether element x of the iterated Set has been called in the running tick
Called(x) == \E i \in 1..Len(iter.called) : iter.called[i].callee = x

\* C6: when a callback has thrown, the tick still ends with every subscriber
\* that is due the event invoked and with the observation stored as the
\* baseline, and the throw leaves the timers as they were.
C6_ThrowIsContained ==
  [][ /\ (iter # None /\ iter' = None /\ (iter.threw \/ inCb)) =>
           /\ \A x \in Range(Iterated) : Due(x) => Called(x)
           /\ IF iter.poller = "library"
              THEN libraryState' = iter.current
              ELSE previous'[iter.poller] = iter.current
      /\ (iter # None /\ inCb /\ ~inCb' /\ released' = released) =>
           (timerId' = timerId /\ libraryTimerId' = libraryTimerId)
    ]_vars

\* C6 witness: a tick in which a callback threw and a second one was called.
C6_Witness ==
  /\ iter # None
  /\ iter.threw
  /\ Len(iter.called) >= 2

\* C7: a child poller's timer runs exactly when the poller has entries.
C7_TimerIffEntries ==
  \A p \in Children : (timerId[p] # 0) <=> (entries[p] # <<>>)

\* C7 witness: a poller that was started and then stopped by the release of
\* its last subscriber, while another subscription was made.
C7_Witness ==
  \E p \in Children :
    /\ timerId[p] = 0
    /\ \E s \in released : subs[s].kind = p

\* C8: the library-identity timer runs exactly when some subscription has
\* been made and not released, and with none left the stored library state
\* is cleared.
C8_LibraryTimerIffSubscribed ==
  LET live == {s \in 1..Len(subs) : s \notin released}
  IN  /\ libraryTimerId <=> live # {}
      /\ live = {} => libraryState = None

\* how often the running tick has invoked the callback for subscription s
Calls(s) == Cardinality({i \in 1..Len(iter.called) : s \in iter.called[i].subs})

\* C9: a library-identity tick that observes another path invokes each
\* library-change subscriber exactly once, with the stored and the observed
\* state; one that observes the stored path invokes nobody and clears no
\* child baseline; either way the observed state is stored.
C9_LibraryTickFiresOncePerSubscriber ==
  [][ /\ (libraryTick /\ iter' = None) =>
           (fired' = None /\ previous' = previous /\ libraryState' \in getLibraryState)
      /\ (libraryTick /\ iter' # None) =>
           (iter'.previous = libraryState /\ iter'.current \in getLibraryState)
      /\ (fired' # None /\ fired'.poller = "library") =>
           /\ fired'.previous = iter.previous
           /\ fired'.current = iter.current
           /\ fired'.current.path # fired'.previous.path
      /\ (iter # None /\ iter.poller = "library" /\ iter' = None) =>
           /\ libraryState' = iter.current
           /\ \A s \in 1..iter.first :
                (subs[s].kind = "library" /\ s \notin released) => Calls(s) = 1
    ]_vars

\* what the comparator is specified to decide: same length, and equal at
\* every index below min(N, length), N being the length when maxLookups is -1
AgreeUpTo(prev, curr, maxLookups) ==
  /\ Len(prev) = Len(curr)
  /\ LET n == IF maxLookups = -1 THEN Len(prev) ELSE maxLookups
     IN  \A i \in 1..Min(n, Len(prev)) : prev[i] = curr[i]

\* C10: hasSelectionChanged returns false exactly when the sequences have
\* the same length and agree at every index below min(N, length).
C10_ComparatorDecidesPrefix ==
  cmpResult # None =>
    (~cmpResult.changed <=> AgreeUpTo(cmpArgs.prev, cmpArgs.curr, cmpArgs.maxLookups))

\* C10 witness: sequences that differ only at or beyond N are reported as
\* unchanged.
C10_Witness ==
  /\ cmpResult # None
  /\ ~cmpResult.changed
  /\ cmpArgs.prev # cmpArgs.curr

\* ---- what a scope reads: the section getSection returns to an operation
\* that runs alone in the current state
FreshKey == <<"fresh">>
ResolvedKey(scope) ==
  IF UsesUuid(scope)
  THEN IF uuidFiles[cfgHost.path].state = "json"
       THEN ConfigKeyOf(scope, uuidFiles[cfgHost.path].root) ELSE FreshKey
  ELSE ConfigKeyOf(scope, getLibraryIdentifier(scope.useLibraryNameAsLibIdentifier, cfgHost))
ResolvedPair(scope) == <<getConfigFilePath(scope), ResolvedKey(scope)>>
Observed(scope) ==
  SectionOf(readJsonFile(cfgFiles[getConfigFilePath(scope)]), ResolvedKey(scope))

ReadKinds == {"get", "getOrDefault", "has", "keys", "getAll"}

\* what a read method returns on a section
Returned(op, data) ==
  CASE op.kind = "get" -> ValueOf(data, op.k)
    [] op.kind = "getOrDefault" ->
         IF op.k \in DOMAIN data /\ data[op.k] # Undefined THEN data[op.k] ELSE op.arg
    [] op.kind = "has" -> op.k \in DOMAIN data
    [] op.kind = "keys" -> DOMAIN data
    [] op.kind = "getAll" -> data

\* a read method that has just returned gave what its scope's section holds
ReadsAgree ==
  (cfgDone.pc = "done" /\ cfgDone.kind \in ReadKinds) =>
    /\ ~cfgDone.error
    /\ cfgDone.result = Returned(cfgDone, Observed(cfgDone.scope))

\* the step is the file write of operation i
Writes(i) == cfgOps[i].pc = "write" /\ cfgOps'[i].pc = "none"

\* C11: operations on one scope never change what get, has, keys or getAll
\* return on a scope that resolves to a different (file, section key) pair.
C11_ScopesAreIsolated ==
  /\ []ReadsAgree
  /\ [][ \A i \in OpIds : cfgOps[i].pc # "none" =>
           \A other \in Scopes :
             (Writes(i) /\ ResolvedPair(other) =
                             <<getConfigFilePath(cfgOps[i].scope), cfgOps[i].key>>)
               \/ Observed(other)' = Observed(other) ]_vars

\* C11 witness: a scope has written its section into a file in which another
\* section key holds data.
C11_Witness ==
  /\ cfgDone.pc = "done"
  /\ cfgDone.kind \in {"set", "setMany"}
  /\ cfgDone.key # NoKey
  /\ Observed(cfgDone.scope) # EmptyData
  /\ \E other \in Scopes :
       /\ getConfigFilePath(other) = getConfigFilePath(cfgDone.scope)
       /\ ResolvedKey(other) # cfgDone.key
       /\ Observed(other) # EmptyData

\* C12: when set(k, v) has completed, get(k) returns v, has(k) is true,
\* keys() contains k, and every other key of the section has kept its value.
C12_SetThenGet ==
  [][ \A i \in OpIds, scope \in Scopes :
        (Writes(i) /\ cfgOps[i].kind = "set" /\ cfgOps[i].scope = scope) =>
          LET op == cfgOps[i]
              before == Observed(scope)
              after == Observed(scope)'
          IN  /\ ValueOf(after, op.k) = op.arg
              /\ op.k \in DOMAIN after
              /\ \A x \in ConfigKeys \ {op.k} :
                   /\ x \in DOMAIN after <=> x \in DOMAIN before
                   /\ ValueOf(after, x) = ValueOf(before, x) ]_vars

\* C13: the section key of a library-UUID scope is made from the UUID in the
\* library's cooler-uuid.json alone: renaming the library folder together
\* with that file leaves what every UUID scope reads unchanged.
C13_UuidKeySurvivesRename ==
  /\ []ReadsAgree
  /\ [](cfgDone.pc = "done" /\ UsesUuid(cfgDone.scope) =>
          /\ uuidFiles[cfgHost.path].state = "json"
          /\ cfgDone.key = ConfigKeyOf(cfgDone.scope, uuidFiles[cfgHost.path].root))
  /\ [][ (cfgDone'.pc = "renamed") =>
           \A scope \in Scopes : UsesUuid(scope) => Observed(scope)' = Observed(scope) ]_vars

\* C13 witness: the library has just been renamed and a UUID scope reads the
\* data it wrote under the old path.
C13_Witness ==
  /\ cfgDone.pc = "renamed"
  /\ \E scope \in Scopes : UsesUuid(scope) /\ Observed(scope) # EmptyData

\* C14: cooler-uuid.json is created only by an operation of a UUID scope,
\* and once it holds a UUID no step replaces that UUID with another.
C14_UuidNeverReplaced ==
  [][ \A p \in LibraryPaths :
        /\ uuidFiles[p].state = "json" => uuidFiles'[p] = uuidFiles[p]
        /\ uuidFiles'[p] # uuidFiles[p] =>
             \E i \in OpIds : cfgOps[i].pc = "uuidWrite" /\ UsesUuid(cfgOps[i].scope) ]_vars

\* C15: clear() on a scope with a section key leaves the scope without keys
\* and every other section and every other config file as it was.
C15_ClearOnlyOwnSection ==
  [][ \A i \in OpIds, scope \in Scopes :
        (Writes(i) /\ cfgOps[i].kind = "clear" /\ cfgOps[i].scope = scope
           /\ cfgOps[i].key # NoKey) =>
          LET op == cfgOps[i]
              file == getConfigFilePath(scope)
              before == readJsonFile(cfgFiles[file])
              after == readJsonFile(cfgFiles'[file])
          IN  /\ Observed(scope)' = EmptyData
              /\ \A k \in ConfigKeys : ValueOf(Observed(scope)', k) = Undefined
              /\ DOMAIN after = DOMAIN before \cup {op.key}
              /\ \A key \in DOMAIN before \ {op.key} : after[key] = before[key]
              /\ \A f \in ConfigFiles \ {file} : cfgFiles'[f] = cfgFiles[f] ]_vars

\* C15 witness: clear() has emptied a section that held data, in a file that
\* holds another section with data.
C15_Witness ==
  /\ cfgDone.pc = "done"
  /\ cfgDone.kind = "clear"
  /\ cfgDone.key # NoKey
  /\ SectionOf(cfgDone.fileData, cfgDone.key) # EmptyData
  /\ \E key \in DOMAIN cfgDone.fileData : key # cfgDone.key /\ cfgDone.fileData[key] # EmptyData

\* what a mutating method makes of an empty section
FromEmpty(op) ==
  CASE op.kind = "set" -> (op.k :> op.arg)
    [] op.kind = "setMany" -> op.arg
    [] op.kind = "clear" -> EmptyData

\* C16: with the config file absent or malformed, a read method returns
\* what it returns on an empty document, without an error, and a mutating
\* method writes what it makes of an empty document.
C16_UnreadableFileIsEmpty ==
  /\ [](cfgDone.pc = "done" /\ cfgFiles[getConfigFilePath(cfgDone.scope)].state # "json" =>
          /\ ~cfgDone.error
          /\ cfgDone.kind \in ReadKinds \cup {"remove"}
          /\ cfgDone.result = IF cfgDone.kind = "remove" THEN FALSE
                              ELSE Returned(cfgDone, EmptyData))
  /\ [][ \A i \in OpIds, file \in ConfigFiles :
           (Writes(i) /\ file = getConfigFilePath(cfgOps[i].scope)
              /\ cfgFiles[file].state # "json") =>
             LET op == cfgOps[i]
             IN  /\ ~cfgDone'.error
                 /\ cfgFiles'[file] =
                      JsonFile(JsonDocument(file,
                        IF op.key = NoKey THEN FromEmpty(op)
                        ELSE (op.key :> FromEmpty(op)))) ]_vars

\* C16 witness: a read method has returned while its config file is
\* malformed.
C16_Witness ==
  /\ cfgDone.pc = "done"
  /\ cfgDone.kind \in ReadKinds
  /\ cfgFiles[getConfigFilePath(cfgDone.scope)].state = "malformed"

\* the update function of the step throws for an id the forest lacks
MissingId(op) ==
  \/ op.kind = "update" /\ findById(metadata[op.entity], op.id) = <<>>
  \/ /\ op.kind = "add" /\ op.entity \in Forests /\ op.id # NoParent
     /\ findById(metadata[op.entity], op.id) = <<>>

\* C17: update with an id that is not present, and add with a parentId that
\* is not present, fail with an error naming the entity and the id and write
\* nothing to metadata.json.
C17_MissingIdFailsWithoutWrite ==
  [][ (frOp.pc = "read" /\ MissingId(frOp)) =>
        /\ frDone'.pc = "done"
        /\ frDone'.threw
        /\ frDone'.error.entity = EntityName(frOp.entity)
        /\ frDone'.error.id = frOp.id
        /\ frOp' = NoOp
        /\ metadata' = metadata ]_vars

\* C17 witness: an update or add has failed on a missing id in a document
\* that holds nodes.
C17_Witness ==
  /\ frDone.pc = "done"
  /\ frDone.threw
  /\ metadata[frDone.op.entity] # <<>>

\* C18: remove with an id that occurs nowhere in the folder forest or the
\* smart-folder forest throws an error naming the entity and the id.
C18_RemoveMissingThrows ==
  [][ (frOp.pc = "read" /\ frOp.kind = "remove" /\ frOp.entity \in Forests
         /\ findById(metadata[frOp.entity], frOp.id) = <<>>) =>
        /\ frDone'.pc = "done"
        /\ frDone'.threw
        /\ frDone'.error.entity = EntityName(frOp.entity)
        /\ frDone'.error.id = frOp.id ]_vars

\* no id occurs twice in a forest
UniqueIds(folders) ==
  \A i, j \in 1..Len(IdsOf(folders)) : IdsOf(folders)[i] = IdsOf(folders)[j] => i = j

\* C19: from a document with unique ids, add, update and remove leave the
\* ids unique within the folder forest and within the smart-folder forest.
C19_IdsStayUnique == \A entity \in Forests : UniqueIds(metadata[entity])

\* the conjunction or disjunction of a sequence of booleans by the match mode
ByMode(match, results) ==
  IF match = "AND" THEN \A i \in DOMAIN results : results[i]
  ELSE \E i \in DOMAIN results : results[i]

IsInt(x) == x.t = "number" /\ x # Infinity
TableSays(v, m, r) ==
  LET seqs == v.t = "array" /\ r.t = "array"
      in(x) == \E i \in DOMAIN v.a : v.a[i] = x
  IN  CASE m = "is" -> v.t # "array" /\ v = r
        [] m = "isNot" -> ~(v.t # "array" /\ v = r)
        [] m = "contains" -> v.t = "string" /\ Includes(v.s, StringOf(r))
        [] m = "notContains" -> v.t = "string" /\ ~Includes(v.s, StringOf(r))
        [] m = "startsWith" -> v.t = "string" /\ StartsWith(v.s, StringOf(r))
        [] m = "endsWith" -> v.t = "string" /\ EndsWith(v.s, StringOf(r))
        [] m = "matches" -> v.t = "string" /\ RegexTest(StringOf(r), v.s)
        [] m = "gt" -> IsInt(v) /\ IsInt(r) /\ v.n > r.n
        [] m = "gte" -> IsInt(v) /\ IsInt(r) /\ v.n >= r.n
        [] m = "lt" -> IsInt(v) /\ IsInt(r) /\ v.n < r.n
        [] m = "lte" -> IsInt(v) /\ IsInt(r) /\ v.n <= r.n
        [] m = "between" ->
             /\ IsInt(v) /\ r.t = "array" /\ Len(r.a) >= 2
             /\ IsInt(r.a[1]) /\ IsInt(r.a[2])
             /\ r.a[1].n <= v.n /\ v.n <= r.a[2].n
        [] m = "isEmpty" -> v = Undef \/ v = Str(<<>>) \/ v = Arr(<<>>)
        [] m = "isNotEmpty" -> ~(v = Undef \/ v = Str(<<>>) \/ v = Arr(<<>>))
        [] m = "includesAny" -> seqs /\ \E i \in DOMAIN r.a : in(r.a[i])
        [] m = "includesAll" -> seqs /\ \A i \in DOMAIN r.a : in(r.a[i])
        [] m = "excludesAny" -> seqs /\ \E i \in DOMAIN r.a : ~in(r.a[i])
        [] m = "excludesAll" -> seqs /\ \A i \in DOMAIN r.a : ~in(r.a[i])
        [] OTHER -> FALSE

\* C21: on every item value, method and rule value, matchesRule gives what
\* the specification table says: false when the types do not fit, numeric
\* methods compare numbers with numbers only, unknown methods give false.
C21_RuleAgreesWithTable ==
  (fltResult # NoOp /\ "value" \in DOMAIN fltResult /\ ~fltResult.threw) =>
    fltResult.value = TableSays(ItemValue(fltItems[1], fltFilter.property),
                                fltFilter.method, fltFilter.value)

\* C22: a filter built by the builder matches an item exactly when its JSON
\* round-tripped copy does.
C22_BuiltFilterSurvivesJson ==
  (fltResult # NoOp /\ "copy" \in DOMAIN fltResult /\ ~fltResult.threw) =>
    fltResult.value = fltResult.copy

\* C23: the terminator of and(property) appends its rule to the builder's
\* current condition, where it is combined with the other rules by AND; and
\* without a current condition and(property) starts a new condition as
\* where(property) does.
C23_AndAppendsWithAllSemantics ==
  [][/\ (bldCurrent # 0 /\ bldPending' # None /\ bldPending' # bldPending
           /\ bldPending'.by = "and") =>
          /\ bldPending'.condition = bldCurrent
          /\ UNCHANGED <<bldHeap, bldConditions, bldCurrent, bldMatch>>
     /\ (bldPending # None /\ bldPending.by = "and" /\ bldPending' = None) =>
          LET c == bldPending.condition
          IN  /\ bldHeap'[c].rules # <<>>
              /\ SubSeq(bldHeap'[c].rules, 1, Len(bldHeap[c].rules)) = bldHeap[c].rules
              /\ bldHeap'[c].rules[Len(bldHeap'[c].rules)].property = bldPending.property
              /\ bldHeap'[c].match = "AND"
     /\ (bldCurrent = 0 /\ bldPending' # None /\ bldPending' # bldPending
           /\ bldPending'.by = "and") =>
          /\ bldConditions' = Append(bldConditions, Len(bldHeap) + 1)
          /\ bldHeap' = Append(bldHeap, [rules |-> <<>>, match |-> "AND"])
          /\ bldCurrent' = Len(bldHeap) + 1
          /\ bldMatch' = bldMatch]_vars

\* C24: an item matches combineFilters(f1..fn) exactly when it matches every
\* fi, and anyOfFilters(f1..fn) exactly when it matches at least one fi.
C24_CombineIsAndAnyOfIsOr ==
  (fltResult # NoOp /\ "by" \in DOMAIN fltResult /\ ~fltResult.threw) =>
    /\ fltResult.by = "combineFilters" =>
         fltResult.value = \A i \in DOMAIN fltFilter : matchesFilter(fltItems[1], fltFilter[i])
    /\ fltResult.by = "anyOfFilters" =>
         fltResult.value = \E i \in DOMAIN fltFilter : matchesFilter(fltItems[1], fltFilter[i])

\* the item value the evaluation is said to use: 0 for an undefined star,
\* the empty sequence for tags or folders that are not arrays
Normalized(item, property) ==
  LET v == ItemValue(item, property)
  IN  IF property = "star" /\ v = Undef THEN Num(0)
      ELSE IF property \in {"tags", "folders"} /\ v.t # "array" THEN Arr(<<>>)
      ELSE v

\* C25: a rule is evaluated on 0 for an item whose star is undefined and on
\* the empty sequence for tags or folders that are not arrays.
C25_AbsentStarIsZero ==
  (fltResult # NoOp /\ "value" \in DOMAIN fltResult /\ ~fltResult.threw) =>
    fltResult.value =
      matchesRule([x \in {fltFilter.property} |-> Normalized(fltItems[1], fltFilter.property)],
                  fltFilter)

\* C26: a request issued on a client with neither a token nor a provider
\* value resolves its token through a fetch of application/info shared with
\* the other requests: it has such a fetch behind it and is not turned away
\* for the lack of a token.
C26_TokenIsFetchedOnce ==
  \A i \in 1..MaxRequests :
    (/\ apiRequests[i] # NoOp
     /\ apiRequests[i].pc = "rejected"
     /\ apiToken = Absent
     /\ apiRequests[i].provided \in {NoProvider, Absent}) =>
      /\ apiRequests[i].error # NoTokenError
      /\ \E n \in DOMAIN apiFetches : apiFetches[n].path = "application/info"

\* C29: a mutating operation on a sectioned scope replaces its section in
\* the document it re-reads just before: the re-read gives the file as it is
\* then, and the write keeps every sibling section of that document with its
\* content.
C29_SiblingsSurviveSave ==
  [][\A i \in OpIds, file \in ConfigFiles :
       (cfgOps[i] # NoOp /\ cfgOps[i].pc \in {"reload", "write"}
          /\ cfgOps[i].key # NoKey /\ file = getConfigFilePath(cfgOps[i].scope)) =>
         /\ (cfgOps[i].pc = "reload" /\ cfgOps'[i] # cfgOps[i]) =>
              /\ cfgOps'[i].pc = "write"
              /\ cfgOps'[i].fileData = readJsonFile(cfgFiles[file])
         /\ (cfgOps[i].pc = "write" /\ cfgOps'[i] # cfgOps[i]) =>
              \A sibling \in DOMAIN cfgOps[i].fileData \ {cfgOps[i].key} :
                /\ cfgFiles'[file].state = "json"
                /\ sibling \in DOMAIN cfgFiles'[file].root
                /\ cfgFiles'[file].root[sibling] = cfgOps[i].fileData[sibling]]_vars

\* C29 witness: a set has completed whose re-read found a sibling section
\* that holds a value, written by another operation after two calls began.
C29_Witness ==
  /\ cfgDone # NoOp
  /\ cfgDone.pc = "done"
  /\ cfgDone.kind = "set"
  /\ cfgDone.key # NoKey
  /\ \E sibling \in DOMAIN cfgDone.fileData \ {cfgDone.key} :
       /\ cfgDone.fileData[sibling] # EmptyData
       /\ sibling \in DOMAIN cfgFiles["library.json"].root
       /\ cfgFiles["library.json"].root[sibling] = cfgDone.fileData[sibling]

\* the ticks of poller p in progress: suspended at their host query, or
\* running their forEach
TicksInProgress(p) ==
  Len(inflight[p]) + (IF iter # None /\ iter.poller = p THEN 1 ELSE 0)

\* C27: a tick of a child poller that was in flight when the library tick
\* cleared the baselines invokes no subscriber: it only stores its
\* observation as the new baseline.
C27_ResetTicksOnlyRebaseline ==
  (fired # None /\ fired.poller \in Children) => ~iter.reset

\* C28: for each poller at most one tick is in progress at any time.
C28_OneTickPerPoller ==
  \A p \in Children : TicksInProgress(p) <= 1

\* C30: updateLibraryMetadata writes to metadata.json, and returns, exactly
\* the result of applying the update function to the document it read; the
\* entities the function does not modify are written back as they were read,
\* and when the function throws nothing is written.
C30_UpdateWritesResultOfUpdate ==
  [][ /\ (frOp.pc = "read" /\ ~ApplyUpdate(frOp, metadata).threw) =>
            /\ metadata' = metadata
            /\ frOp'.pc = "write"
            /\ frOp'.next = ApplyUpdate(frOp, metadata).next
      /\ frOp.pc = "write" =>
            /\ metadata' = ApplyUpdate(frOp, metadata).next
            /\ frDone'.pc = "done" /\ ~frDone'.threw
            /\ frDone'.op.next = metadata'
            /\ \A e \in Entities \ {frOp.entity} : metadata'[e] = metadata[e]
      /\ (frOp.pc = "read" /\ ApplyUpdate(frOp, metadata).threw) =>
            /\ metadata' = metadata
            /\ frOp' = NoOp
            /\ frDone'.threw ]_vars

\* C30 witness: an update has been written over a document whose other
\* entities held nodes, and the document now differs from the one read.
C30_Witness ==
  /\ frDone.pc = "done"
  /\ ~frDone.threw
  /\ metadata = frDone.op.next
  /\ \E e \in Entities \ {frDone.op.entity} : metadata[e] # <<>>
  /\ metadata \notin StartMetadata

RECURSIVE WithoutSubtrees(_, _)
WithoutSubtrees(folders, id) ==
  LET kept == SelectSeq(folders, LAMBDA folder : folder.id # id)
  IN  [i \in 1..Len(kept) |->
         [kept[i] EXCEPT !.children = WithoutSubtrees(kept[i].children, id)]]

\* a forest with every node given a children array
RECURSIVE WithChildren(_)
WithChildren(folders) ==
  [i \in 1..Len(folders) |->
     [folders[i] EXCEPT !.children = WithChildren(folders[i].children), !.bare = FALSE]]

\* C32: after remove(id) on the folder or smart-folder forest the id is not
\* found, every node with that id is gone with its subtree, and the written
\* forest equals the original with only those subtrees deleted.
C32_RemoveDeletesOnlySubtrees ==
  [][ (frOp.pc = "write" /\ frOp.kind = "remove" /\ frOp.entity \in Forests) =>
        /\ findById(metadata'[frOp.entity], frOp.id) = <<>>
        /\ \A i \in DOMAIN IdsOf(metadata'[frOp.entity]) :
              IdsOf(metadata'[frOp.entity])[i] # frOp.id
        /\ metadata'[frOp.entity] = WithoutSubtrees(metadata[frOp.entity], frOp.id) ]_vars

\* the part of C32 apart from the children property of the remaining nodes
RemoveDeletesSubtreesUpToChildren ==
  [][ (frOp.pc = "write" /\ frOp.kind = "remove" /\ frOp.entity \in Forests) =>
        /\ findById(metadata'[frOp.entity], frOp.id) = <<>>
        /\ metadata'[frOp.entity] =
              WithChildren(WithoutSubtrees(metadata[frOp.entity], frOp.id)) ]_vars

\* historyTags of a tags.json, [] when the file holds none
HistoryTags(file) ==
  IF file.state = "json" /\ "historyTags" \in file.root.has
  THEN file.root.historyTags ELSE <<>>

\* no element occurs twice in a sequence
NoDuplicates(s) == \A i, j \in DOMAIN s : s[i] = s[j] => i = j

\* C33: after a successful write with index updating enabled, mtime.json maps
\* the item's id to data.lastModified if present, else data.modificationTime
\* if present, else the current time, its other entries are unchanged, and
\* historyTags holds every tag of data.tags, no tag twice, with the tags it
\* held before kept in their order.
C33_WriteMaintainsIndexes ==
  (itDone.pc = "done" /\ ~itDone.threw /\ itDone.op.options.updateIndexes # "false") =>
    LET data == itDone.op.data
        mtimeBefore == itDone.op.before[3]
        tagsBefore == itDone.op.before[4]
    IN  /\ mtimeFile.state = "json"
        /\ mtimeFile.root[ItemId] =
             IF data.lastModified # Absent THEN data.lastModified
             ELSE IF data.modificationTime # Absent THEN data.modificationTime
             ELSE mtimeFile.root[ItemId]
        /\ (data.lastModified = Absent /\ data.modificationTime = Absent) =>
             mtimeFile.root[ItemId] \in Clock
        /\ DOMAIN mtimeFile.root = DOMAIN mtimeBefore.root \cup {ItemId}
        /\ \A k \in DOMAIN mtimeBefore.root \ {ItemId} :
             mtimeFile.root[k] = mtimeBefore.root[k]
        /\ Range(data.tags) \subseteq Range(HistoryTags(tagsFile))
        /\ data.tags # <<>> =>
             /\ NoDuplicates(HistoryTags(tagsFile))
             /\ Len(HistoryTags(tagsFile)) >= Len(HistoryTags(tagsBefore))
             /\ SubSeq(HistoryTags(tagsFile), 1, Len(HistoryTags(tagsBefore)))
                  = HistoryTags(tagsBefore)
        /\ data.tags = <<>> => tagsFile = tagsBefore

\* C33 witness: a write without lastModified has resolved after adding one
\* tag to a tags.json that held tags, in a library whose mtime.json held
\* another item.
C33_Witness ==
  /\ itDone.pc = "done"
  /\ ~itDone.threw
  /\ itDone.op.options.updateIndexes # "false"
  /\ itDone.op.data.lastModified = Absent
  /\ itDone.op.data.modificationTime # Absent
  /\ HistoryTags(itDone.op.before[4]) # <<>>
  /\ Len(HistoryTags(tagsFile)) > Len(HistoryTags(itDone.op.before[4]))
  /\ "i2" \in DOMAIN mtimeFile.root

\* C39: a write that fails at any step leaves the item's metadata.json, the
\* .url companion and both indexes as they were before the call.
C39_FailedWriteChangesNothing ==
  (itDone.pc = "done" /\ itDone.threw) => ItemFiles = itDone.op.before

\* C34: every onLibraryChange call makes an independent subscription: while
\* one of them has not been released its callback stays registered and the
\* library-identity poller keeps running, whatever happens to the handles of
\* the other subscriptions.
C34_LibrarySubscriptionsAreIndependent ==
  \A s \in 1..Len(subs) :
    (subs[s].kind = "library" /\ s \notin released) =>
      /\ subs[s].callback \in Range(libraryCallbacks)
      /\ libraryTimerId

\* C35: for each child poller, an observation whose host query was issued
\* earlier is never stored as the baseline, nor reported as the current value
\* of an event, after the observation of a query issued later: a check that
\* a later one has overtaken ends without storing or reporting anything.
C35_ObservationsInstalledInIssueOrder ==
  [][ \A p \in Children, i \in 1..MaxInflight :
        (/\ i <= Len(inflight[p])
         /\ inflight[p][i].overtaken
         /\ inflight'[p] = RemoveAt(inflight[p], i)) =>
          /\ previous'[p] = previous[p]
          /\ iter' = iter ]_vars

\* C36: set, setMany and remove on a library-scoped config save into the
\* section they read: the key saveSection resolves is the key getSection
\* resolved, also when the host switches library in between.
C36_SavesIntoTheSectionItRead ==
  (/\ cfgDone.pc = "done"
   /\ ~cfgDone.error
   /\ cfgDone.kind \in {"set", "setMany", "remove"}
   /\ cfgDone.scope.type = "librarybased") =>
    cfgDone.key = cfgDone.readKey

\* what the section key of a library-scoped instance is made from: the
\* identifier mode, the library identifier of that mode, and the plugin id
\* when the scope is per plugin
KeySource(instance) ==
  <<instance.scope.useLibraryUuid, instance.scope.useLibraryNameAsLibIdentifier,
    IF instance.scope.useLibraryUuid THEN instance.library.uuid
    ELSE getLibraryIdentifier(instance.scope.useLibraryNameAsLibIdentifier,
                              instance.library),
    instance.scope.thisPluginOnly,
    IF instance.scope.thisPluginOnly THEN instance.plugin ELSE <<>>>>

\* C37: with the hash injective, two library-scoped instances that differ in
\* their scope descriptor, or in the library or plugin their key is made
\* from, never resolve to the same section key of library.json.
C37_DistinctInstancesDistinctKeys ==
  (keyResult # None /\ KeySource(keyArgs[1]) # KeySource(keyArgs[2])) =>
    keyResult[1] # keyResult[2]

\* the case C37 names: in path mode, the per-plugin key of one library and
\* the library-only key of another library
PathModeKeysDiffer ==
  (/\ keyResult # None
   /\ \A i \in {1, 2} : ~keyArgs[i].scope.useLibraryUuid
                         /\ ~keyArgs[i].scope.useLibraryNameAsLibIdentifier
   /\ keyArgs[1].scope.thisPluginOnly /\ ~keyArgs[2].scope.thisPluginOnly
   /\ keyArgs[1].library # keyArgs[2].library) =>
    keyResult[1] # keyResult[2]

\* C38: no call made on the builder after build() changes the conditions,
\* the rules or the match mode of the filter build() returned.
C38_BuiltFilterIsIndependent ==
  [][ bldBuilt => fltFilter' = fltFilter ]_vars

\* C40: matchesRule is total: for every item and every rule, also a matches
\* rule whose value is no valid regular-expression pattern, it returns a
\* boolean and does not throw.
C40_MatchesRuleIsTotal ==
  fltResult # NoOp => (~fltResult.threw /\ fltResult.value \in BOOLEAN)

====
